---- MODULE Spec2Model ----
(***************************************************************************)
(* FlightSync: the dynamic pricing engine (pricing_engine.py) and the      *)
(* PostgreSQL -> MongoDB synchronisation service (sync_service.py).        *)
(*                                                                         *)
(* Units.  Multipliers are integers in hundredths (1.65 is 165); the       *)
(* weighted sum and the configured bounds min_multiplier/max_multiplier    *)
(* are in ten-thousandths (1.65 is 16500), the unit in which               *)
(* 0.40*a + 0.30*b + ... is exact for two-decimal factors.  Occupancy      *)
(* percentages are in hundredths of a percent (90.0 is 9000).  Prices:     *)
(* base_price is in currency units, current_price in hundredths of a unit  *)
(* (base_price times a multiplier in hundredths).  Time is in hours.       *)
(***************************************************************************)
EXTENDS Integers, Sequences, FiniteSets, TLC

\* ------------------------------------------------------------------ bounds
MaxSeats == 10
NumFlights == 2
NumCallers == 2
MaxOps == 3
ClockStep == 12
NumReviews == 2
NumBookings == 1
MaxEvents == 3
MaxHistoryOps == 2
MaxBulk == 2
MaxHistoryBulk == 1
MaxClock == 12
TierSeats == 20
MaxRecommendOps == 1
MaxPropagationOps == 2

\* ------------------------------------------------------- generic helpers
Max2(a, b) == IF a >= b THEN a ELSE b
Min2(a, b) == IF a <= b THEN a ELSE b
SetMin(S) == CHOOSE m \in S : \A x \in S : m <= x
SetMax(S) == CHOOSE m \in S : \A x \in S : m >= x

RECURSIVE SeqSum(_)
SeqSum(s) == IF s = <<>> THEN 0 ELSE Head(s) + SeqSum(Tail(s))

\* Python's round() of the exact quotient n/d (n >= 0, d > 0) to an integer:
\* round-half-to-even, used where the float operand is exactly representable.
RoundHalfEven(n, d) ==
    LET q == n \div d
        r == n % d
    IN  IF 2 * r < d THEN q
        ELSE IF 2 * r > d THEN q + 1
        ELSE IF q % 2 = 0 THEN q ELSE q + 1

\* round() of a float that carries the quotient n/d (n >= 0, d > 0) to an
\* integer: the nearest one, and on a tie either neighbour, as the float is
\* a hair off the quotient.
RoundNearest(n, d) ==
    LET q == n \div d
        r == n % d
    IN  IF 2 * r < d THEN {q}
        ELSE IF 2 * r > d THEN {q + 1}
        ELSE {q, q + 1}

\* round(x, 2) of a float that carries a value x in ten-thousandths.  Off a
\* tie the result is the nearest hundredth.  On a tie (x ends in 50) the
\* binary float is a hair above or below the decimal value, so either
\* neighbour is produced (round(1.655, 2) = 1.66, round(1.005, 2) = 1.0).
Round2(x) ==
    IF x % 100 = 50 THEN {x \div 100, x \div 100 + 1}
    ELSE {(x + 50) \div 100}

\* ------------------------------------------------ DynamicPricingEngine
\* The class tables, keys and values in hundredths, in source order.
OCCUPANCY_THRESHOLDS ==
    << <<30, 85>>, <<50, 100>>, <<70, 125>>, <<85, 150>>, <<95, 200>>, <<100, 250>> >>

DEPARTURE_MULTIPLIERS ==
    << <<0, 250>>, <<1, 200>>, <<3, 175>>, <<7, 150>>, <<14, 125>>, <<30, 100>>,
       <<60, 90>>, <<90, 85>> >>

TIME_FACTORS ==
    << <<6, 9, 120>>, <<9, 12, 110>>, <<12, 14, 100>>, <<14, 17, 105>>,
       <<17, 21, 125>>, <<21, 24, 95>>, <<0, 6, 85>> >>

DAY_FACTORS == <<115, 105, 100, 110, 125, 120, 130>>

\* __init__ defaults, in ten-thousandths.
DefaultMinMultiplier == 5000
DefaultMaxMultiplier == 50000

\* An occupancy rate is the exact fraction num/den together with err, the
\* sign of the float's deviation from it: 1.0 - 7/10 is 0.30000000000000004,
\* which compares greater than the literal 0.30.
RateLeq(rate, pct) ==
    \/ rate.num * 100 < pct * rate.den
    \/ rate.num * 100 = pct * rate.den /\ rate.err <= 0

\* occupancy < threshold and occupancy > threshold on the same floats.
RateLt(rate, pct) ==
    \/ rate.num * 100 < pct * rate.den
    \/ rate.num * 100 = pct * rate.den /\ rate.err < 0

RateGt(rate, pct) == ~RateLeq(rate, pct)

\* occupancy_rate = 1.0 - (available_seats / total_seats) if total_seats > 0
\* else 0.  The subtraction is exact for 0, 1/2 and 1; elsewhere the float
\* may fall on either side of the fraction.
OccupancyRates(available_seats, total_seats) ==
    IF total_seats > 0
    THEN LET errs == IF \/ available_seats = 0
                        \/ available_seats = total_seats
                        \/ 2 * available_seats = total_seats
                     THEN {0} ELSE {-1, 0, 1}
         IN  {[num |-> total_seats - available_seats, den |-> total_seats, err |-> e] :
                 e \in errs}
    ELSE {[num |-> 0, den |-> 1, err |-> 0]}

\* A lookup that takes a tier only below its threshold.
_get_occupancy_multiplier_Strict(occupancy_rate) ==
    LET hits == {i \in 1..Len(OCCUPANCY_THRESHOLDS) :
                    RateLt(occupancy_rate, OCCUPANCY_THRESHOLDS[i][1])}
    IN  IF hits = {} THEN 250 ELSE OCCUPANCY_THRESHOLDS[SetMin(hits)][2]

\* round(occupancy_rate * 100, 2), in hundredths of a percent.
OccupancyPct(available_seats, total_seats) ==
    IF total_seats > 0
    THEN RoundHalfEven(10000 * (total_seats - available_seats), total_seats)
    ELSE 0

_get_occupancy_multiplier(occupancy_rate) ==
    LET hits == {i \in 1..Len(OCCUPANCY_THRESHOLDS) :
                    RateLeq(occupancy_rate, OCCUPANCY_THRESHOLDS[i][1])}
    IN  IF hits = {} THEN 250 ELSE OCCUPANCY_THRESHOLDS[SetMin(hits)][2]

_get_departure_multiplier(days) ==
    LET hits == {i \in 1..Len(DEPARTURE_MULTIPLIERS) : days <= DEPARTURE_MULTIPLIERS[i][1]}
    IN  IF hits = {} THEN 85 ELSE DEPARTURE_MULTIPLIERS[SetMin(hits)][2]

_get_time_multiplier(hour) ==
    LET hits == {i \in 1..Len(TIME_FACTORS) :
                    TIME_FACTORS[i][1] <= hour /\ hour < TIME_FACTORS[i][2]}
    IN  IF hits = {} THEN 100 ELSE TIME_FACTORS[SetMin(hits)][3]

_get_day_multiplier(day) ==
    IF day \in 0..6 THEN DAY_FACTORS[day + 1] ELSE 100

_get_seasonal_multiplier(is_holiday, is_peak_season) ==
    LET m0 == 100
        m1 == IF is_holiday THEN (m0 * 135) \div 100 ELSE m0
    IN  IF is_peak_season THEN (m1 * 120) \div 100 ELSE m1

_check_holiday(date) ==
    <<date.month, date.day>> \in {<<1, 26>>, <<8, 15>>, <<10, 2>>, <<11, 14>>, <<12, 25>>}

_check_peak_season(date) == date.month \in {4, 5, 10, 12, 1}

\* A datetime is [ord, hour, weekday, month, day]: ord is the day number
\* counted from the day the clock reads 0, the calendar fields are those of
\* the date.  (dep_time - now).days floors the difference to whole days.
DaysToDeparture(dep_time, t) == ((dep_time.ord * 24 + dep_time.hour) - t) \div 24

\* A weighted sum whose weights add up to 1.10.
WeightedSurge_Heavy(occupancy_mult, departure_mult, time_mult, day_mult, seasonal_mult) ==
    50 * occupancy_mult + 30 * departure_mult + 10 * time_mult + 10 * day_mult
        + 10 * seasonal_mult

\* The weighted sum with the weights of occupancy and departure exchanged.
WeightedSurge_Swapped(occupancy_mult, departure_mult, time_mult, day_mult, seasonal_mult) ==
    30 * occupancy_mult + 40 * departure_mult + 10 * time_mult + 10 * day_mult
        + 10 * seasonal_mult

\* 0.40*occupancy + 0.30*departure + 0.10*time + 0.10*day + 0.10*seasonal,
\* in ten-thousandths.
WeightedSurge(occupancy_mult, departure_mult, time_mult, day_mult, seasonal_mult) ==
    40 * occupancy_mult + 30 * departure_mult + 10 * time_mult + 10 * day_mult
        + 10 * seasonal_mult

\* max(self.min_multiplier, min(self.max_multiplier, weighted_surge))
ApplyBounds(weighted_surge, minm, maxm) == Max2(minm, Min2(maxm, weighted_surge))

\* calculate_surge_multiplier: the set of (multiplier, breakdown) pairs the
\* call can return; it has more than one element only where float rounding
\* decides (an occupancy on a tier boundary, a tie of the final rounding).
\* historical_demand is computed into PricingFactors and never read again.
calculate_surge_multiplier(available_seats, total_seats, dep_time, t, minm, maxm) ==
    LET days           == DaysToDeparture(dep_time, t)
        departure_mult == _get_departure_multiplier(days)
        time_mult      == _get_time_multiplier(dep_time.hour)
        day_mult       == _get_day_multiplier(dep_time.weekday)
        seasonal_mult  == _get_seasonal_multiplier(_check_holiday(dep_time),
                                                   _check_peak_season(dep_time))
        Weighted(rate) == WeightedSurge(_get_occupancy_multiplier(rate), departure_mult,
                                        time_mult, day_mult, seasonal_mult)
        Result(rate, final) ==
            [ multiplier |-> final,
              breakdown  |->
                [ occupancy_rate    |-> OccupancyPct(available_seats, total_seats),
                  days_to_departure |-> days,
                  factors           |-> [ occupancy        |-> _get_occupancy_multiplier(rate),
                                          departure_timing |-> departure_mult,
                                          time_of_day      |-> time_mult,
                                          day_of_week      |-> day_mult,
                                          seasonal         |-> seasonal_mult ],
                  weighted_raw      |-> Weighted(rate),
                  final_multiplier  |-> final ] ]
    IN  UNION { { Result(rate, final) :
                    final \in Round2(ApplyBounds(Weighted(rate), minm, maxm)) }
                : rate \in OccupancyRates(available_seats, total_seats) }

\* ------------------------------------------------------------------ state
VARIABLES
    min_multiplier, max_multiplier,  \* DynamicPricingEngine fields
    now,                             \* datetime.now(), in hours
    flights, prices,                 \* PostgreSQL: flights and prices rows
    price_history,                   \* MongoDB: price_history collection
    channel,                         \* notifications queued for the listener
    listening,                       \* a session has executed LISTEN mongodb_sync
    call, batch, ret,                \* update_flight_price / batch_update_prices:
                                     \* each caller's position, loop state (with
                                     \* writes, the UPDATEs its batch has made)
                                     \* and last outcome
    ops,                             \* calls of update_flight_price begun so far
    surge_in, surge_out,             \* a direct call of calculate_surge_multiplier
    reviews, bookings,               \* PostgreSQL: reviews and bookings rows
    flight_reviews,                  \* MongoDB: flight_reviews collection
    customer_behavior,               \* MongoDB: customer_behavior collection
    listener,                        \* MongoDBSyncService.run: position in the loop
    notifies,                        \* self.conn.notifies
    log,                             \* what the sync service has printed: the
                                     \* outcome of each notification processed
    bulk,                            \* BulkSyncService.sync_all: position, rows
                                     \* fetched and not yet written, runs begun
                                     \* and runs completed
    events,                          \* changes made by other sessions so far
    ai_pricing_insights              \* MongoDB: ai_pricing_insights collection

engineVars == <<min_multiplier, max_multiplier>>
pgVars     == <<flights, prices>>
callVars   == <<call, batch, ret, ops>>
probeVars  == <<surge_in, surge_out>>
insightVars == <<ai_pricing_insights>>
crmVars    == <<reviews, bookings>>
docVars    == <<flight_reviews, customer_behavior>>
syncVars   == <<docVars, listener, notifies, log, bulk, events>>
vars == <<engineVars, now, pgVars, price_history, channel, listening, callVars, probeVars,
          insightVars, crmVars, syncVars>>

FlightIds  == 1..NumFlights
\* Ids a caller may name: the flights, and one id that has no row.
RequestIds == 1..(NumFlights + 1)
Callers    == 1..NumCallers

NoRow  == [absent |-> TRUE]
NoDoc  == [absent |-> TRUE]
NoCall == [pc |-> "idle"]
NoBatch == [active |-> FALSE]
NoRet  == [kind |-> "none", op |-> "none"]

\* The prices row of flight f has price_id f + 100.
PriceIdOf(f) == f + 100

\* ------------------------------------------------------------ primary store
\* SELECT ... FROM flights f JOIN prices p ON f.flight_id = p.flight_id
\* WHERE f.flight_id = %s: one joined row, or None.
SelectFlightJoin(flight_id) ==
    IF flight_id \in DOMAIN flights /\ flights[flight_id] # NoRow
                                    /\ prices[flight_id] # NoRow
    THEN [ flight_id       |-> flight_id,
           available_seats |-> flights[flight_id].available_seats,
           total_seats     |-> flights[flight_id].total_seats,
           dep_time        |-> flights[flight_id].dep_time,
           base_price      |-> prices[flight_id].base_price,
           current_price   |-> prices[flight_id].current_price,
           surge_multiplier |-> prices[flight_id].surge_multiplier ]
    ELSE NoRow

\* An update that lowers no price: it keeps the row's current_price when
\* that is above the new one.
UpdatePricesRow_KeepsHigher(flight_id, new_surge, new_price) ==
    [prices EXCEPT ![flight_id] =
        [@ EXCEPT !.surge_multiplier = new_surge,
                  !.current_price = Max2(@, new_price),
                  !.last_updated = now]]

\* UPDATE prices SET surge_multiplier = %s, current_price = %s,
\* last_updated = NOW() WHERE flight_id = %s: no row matched, no change.
UpdatePricesRow(flight_id, new_surge, new_price) ==
    IF prices[flight_id] = NoRow THEN prices
    ELSE [prices EXCEPT ![flight_id] =
             [@ EXCEPT !.surge_multiplier = new_surge,
                       !.current_price = new_price,
                       !.last_updated = now]]

\* A trigger that notifies nobody.
Notify_Never(payload) == channel

\* The row-change trigger on prices: NOTIFY mongodb_sync with the changed
\* row's id.  A notification reaches only sessions that are listening.
Notify(payload) == IF listening THEN Append(channel, payload) ELSE channel

\* A payload as the listener receives it: text that is not JSON, JSON that
\* is not an object, or an object with table, operation and record_id.
GarbagePayload == [form |-> "garbage"]
ArrayPayload   == [form |-> "array"]
ChangeEvent(table, operation, record_id) ==
    [form |-> "object", table |-> table, operation |-> operation, record_id |-> record_id]

PriceEvent(flight_id) == ChangeEvent("prices", "UPDATE", PriceIdOf(flight_id))

\* ---------------------------------------------------------- secondary store
SnapshotsOf(f) ==
    IF price_history[f] = NoDoc THEN <<>> ELSE price_history[f].price_snapshots

\* An update that adds the snapshot only when the array does not hold it yet.
PushSnapshot_AddToSet(f, snapshot) ==
    [price_history EXCEPT ![f] =
        IF @ = NoDoc
        THEN [ flight_id |-> f, price_snapshots |-> <<snapshot>>,
               updated_at |-> now, created_at |-> now ]
        ELSE IF \E i \in 1..Len(@.price_snapshots) : @.price_snapshots[i] = snapshot
        THEN [@ EXCEPT !.updated_at = now]
        ELSE [@ EXCEPT !.price_snapshots = Append(@, snapshot),
                       !.updated_at = now]]

\* An update that sets the array to the new snapshot alone.
PushSnapshot_Overwrite(f, snapshot) ==
    [price_history EXCEPT ![f] =
        [ flight_id |-> f, price_snapshots |-> <<snapshot>>,
          updated_at |-> now, created_at |-> now ]]

\* price_history.update_one({'flight_id': f}, {'$push': {'price_snapshots':
\* snapshot}, '$set': {'updated_at': now}, '$setOnInsert': {..., 'created_at':
\* now}}, upsert=True)
PushSnapshot(f, snapshot) ==
    [price_history EXCEPT ![f] =
        IF @ = NoDoc
        THEN [ flight_id |-> f, price_snapshots |-> <<snapshot>>,
               updated_at |-> now, created_at |-> now ]
        ELSE [@ EXCEPT !.price_snapshots = Append(@, snapshot),
                       !.updated_at = now]]

\* ------------------------------------------------------ update_flight_price
\* A loop that swallows the exception without recording it.
CaptureError_Dropped(updates, fid, err) == updates

\* except Exception as e: updates.append({'flight_id': fid, 'error': str(e)})
CaptureError(updates, fid, err) == Append(updates, [flight_id |-> fid, error |-> err])

\* The loop of batch_update_prices goes on to its next id, or returns.
NextInBatch(c, updates) ==
    LET b == batch[c]
    IN  IF b.idx = Len(b.ids)
        THEN /\ batch' = [batch EXCEPT ![c] = NoBatch]
             /\ call' = [call EXCEPT ![c] = NoCall]
             /\ ret' = [ret EXCEPT ![c] =
                    [kind |-> "list", op |-> "batch", ids |-> b.ids, value |-> updates,
                     writes |-> b.writes]]
        ELSE /\ batch' = [batch EXCEPT ![c] = [b EXCEPT !.idx = b.idx + 1,
                                                        !.updates = updates]]
             /\ call' = [call EXCEPT ![c] =
                            [pc |-> "select", flight_id |-> b.ids[b.idx + 1]]]
             /\ ret' = ret

\* update_flight_price raises: inside batch_update_prices the loop captures
\* the exception, else it reaches the caller (at: the statement that raised).
Raise(c, err) ==
    IF batch[c].active
    THEN NextInBatch(c, CaptureError(batch[c].updates, call[c].flight_id, err))
    ELSE /\ call' = [call EXCEPT ![c] = NoCall]
         /\ ret' = [ret EXCEPT ![c] =
                       [kind |-> "raise", op |-> "refresh",
                        flight_id |-> call[c].flight_id, error |-> err,
                        at |-> call[c].pc]]
         /\ batch' = batch

\* update_flight_price returns its result dict.
Return(c, update) ==
    IF batch[c].active
    THEN NextInBatch(c, Append(batch[c].updates, update))
    ELSE /\ call' = [call EXCEPT ![c] = NoCall]
         /\ ret' = [ret EXCEPT ![c] = [kind |-> "value", op |-> "refresh",
                                       value |-> update]]
         /\ batch' = batch

\* A caller enters update_flight_price(flight_id).
StartRefresh(c, fid) ==
    /\ call[c].pc = "idle"
    /\ ~batch[c].active
    /\ ops + 1 <= MaxOps
    /\ ops' = ops + 1
    /\ call' = [call EXCEPT ![c] = [pc |-> "select", flight_id |-> fid]]
    /\ ret' = [ret EXCEPT ![c] = [kind |-> "pending", op |-> "refresh"]]
    /\ UNCHANGED <<engineVars, now, pgVars, price_history, channel, listening, batch,
                   probeVars, insightVars, crmVars, syncVars>>

\* None, where _get_historical_demand has no average to return.
NoDemand == [absent |-> TRUE]

\* _get_historical_demand: the $avg of price_snapshots.occupancy_rate over
\* the flight's document, as the pair of the sum (in the snapshots' unit,
\* hundredths of a percent) and the number of snapshots; None when the
\* aggregation raises (mongo_ok false) or yields no group.
_get_historical_demand(flight_id, mongo_ok) ==
    IF ~mongo_ok THEN NoDemand
    ELSE LET rates == [i \in 1..Len(SnapshotsOf(flight_id)) |->
                          SnapshotsOf(flight_id)[i].occupancy_rate]
         IN  IF rates = <<>> THEN NoDemand
             ELSE [sum |-> SeqSum(rates), n |-> Len(rates)]

\* A computation that scales the multiplier by the average occupancy when
\* the lookup returns one.
ComputeNewPrice_DemandWeighted(c, flight) ==
    \E mongo_ok \in BOOLEAN :
    \E r \in calculate_surge_multiplier(flight.available_seats, flight.total_seats,
                                        flight.dep_time, now,
                                        min_multiplier, max_multiplier) :
        LET historical_demand == _get_historical_demand(flight.flight_id, mongo_ok)
            weighted == IF historical_demand = NoDemand THEN r.multiplier
                        ELSE r.multiplier + historical_demand.sum \div
                                                (1000 * historical_demand.n)
        IN  /\ call' = [call EXCEPT ![c] =
                  [ pc |-> "update", flight_id |-> flight.flight_id, flight |-> flight,
                    historical_demand |-> historical_demand,
                    new_surge |-> weighted,
                    new_price |-> flight.base_price * weighted,
                    breakdown |-> r.breakdown ]]
            /\ UNCHANGED <<batch, ret>>

\* surge, breakdown = self.calculate_surge_multiplier(...);
\* new_price = base_price * Decimal(str(surge)).  PricingFactors takes
\* historical_demand from _get_historical_demand(flight_id), and nothing
\* reads it after that.
ComputeNewPrice(c, flight) ==
    \E mongo_ok \in BOOLEAN :
    \E r \in calculate_surge_multiplier(flight.available_seats, flight.total_seats,
                                        flight.dep_time, now,
                                        min_multiplier, max_multiplier) :
        /\ call' = [call EXCEPT ![c] =
              [ pc |-> "update", flight_id |-> flight.flight_id, flight |-> flight,
                historical_demand |-> _get_historical_demand(flight.flight_id, mongo_ok),
                new_surge |-> r.multiplier,
                new_price |-> flight.base_price * r.multiplier,
                breakdown |-> r.breakdown ]]
        /\ UNCHANGED <<batch, ret>>

\* A lookup that answers a missing row with an empty result instead of raising.
SelectAndCompute_ReturnsEmpty(c) ==
    /\ call[c].pc = "select"
    /\ LET flight == SelectFlightJoin(call[c].flight_id)
       IN  IF flight = NoRow THEN Return(c, [flight_id |-> call[c].flight_id])
           ELSE ComputeNewPrice(c, flight)
    /\ UNCHANGED <<engineVars, now, pgVars, price_history, channel, listening, ops,
                   probeVars, insightVars, crmVars, syncVars>>

\* The SELECT, the not-found check and calculate_surge_multiplier.
SelectAndCompute(c) ==
    /\ call[c].pc = "select"
    /\ LET flight == SelectFlightJoin(call[c].flight_id)
       IN  IF flight = NoRow THEN Raise(c, "not found")
           ELSE ComputeNewPrice(c, flight)
    /\ UNCHANGED <<engineVars, now, pgVars, price_history, channel, listening, ops,
                   probeVars, insightVars, crmVars, syncVars>>

\* The UPDATE of the prices row; its trigger queues the change notification.
UpdatePrice(c) ==
    /\ call[c].pc = "update"
    /\ prices' = UpdatePricesRow(call[c].flight_id, call[c].new_surge, call[c].new_price)
    /\ channel' = Notify(PriceEvent(call[c].flight_id))
    /\ call' = [call EXCEPT ![c].pc = "sync"]
    /\ batch' = IF batch[c].active
                THEN [batch EXCEPT ![c].writes = @ + 1] ELSE batch
    /\ UNCHANGED <<engineVars, now, flights, price_history, listening, ret, ops,
                   probeVars, insightVars, crmVars, syncVars>>

\* A failing UPDATE after which the snapshot is pushed all the same.
QueryFails_StillSyncs(c) ==
    /\ call[c].pc \in {"select", "update"}
    /\ Raise(c, "db error")
    /\ price_history' =
          IF call[c].pc = "update"
          THEN PushSnapshot(call[c].flight_id,
                            [ timestamp |-> now, triggered_by |-> "pricing_engine",
                              current_price |-> call[c].new_price,
                              surge_multiplier |-> call[c].new_surge ])
          ELSE price_history
    /\ UNCHANGED <<engineVars, now, pgVars, channel, listening, ops,
                   probeVars, insightVars, crmVars, syncVars>>

\* A query of update_flight_price fails in the database: pg.execute raises.
QueryFails(c) ==
    /\ call[c].pc \in {"select", "update"}
    /\ Raise(c, "db error")
    /\ UNCHANGED <<engineVars, now, pgVars, price_history, channel, listening, ops,
                   probeVars, insightVars, crmVars, syncVars>>

EngineSnapshot(flight, new_surge, new_price, breakdown) ==
    [ timestamp        |-> now,
      base_price       |-> flight.base_price,
      current_price    |-> new_price,
      surge_multiplier |-> new_surge,
      available_seats  |-> flight.available_seats,
      total_seats      |-> flight.total_seats,
      occupancy_rate   |-> breakdown.occupancy_rate,
      triggered_by     |-> "pricing_engine",
      breakdown        |-> breakdown.factors ]

\* A sync that pushes nothing.
_sync_to_mongodb_Skips(flight, new_surge, new_price, breakdown, mongo_ok) == price_history

\* _sync_to_mongodb: the push; with mongo_ok false update_one raises and the
\* except clause swallows it.
_sync_to_mongodb(flight, new_surge, new_price, breakdown, mongo_ok) ==
    IF mongo_ok
    THEN PushSnapshot(flight.flight_id,
                      EngineSnapshot(flight, new_surge, new_price, breakdown))
    ELSE price_history

UpdateResult(c) ==
    [ flight_id |-> call[c].flight_id,
      old_price |-> call[c].flight.current_price,
      new_price |-> call[c].new_price,
      old_surge |-> call[c].flight.surge_multiplier,
      new_surge |-> call[c].new_surge ]

\* A sync whose failure undoes the UPDATE and reaches the caller.
SyncAndReturn_RollsBack(c, mongo_ok) ==
    /\ call[c].pc = "sync"
    /\ price_history' = _sync_to_mongodb(call[c].flight, call[c].new_surge,
                                         call[c].new_price, call[c].breakdown, mongo_ok)
    /\ IF mongo_ok
       THEN Return(c, UpdateResult(c)) /\ prices' = prices
       ELSE /\ Raise(c, "mongo error")
            /\ prices' = UpdatePricesRow(call[c].flight_id, call[c].flight.surge_multiplier,
                                         call[c].flight.current_price)
    /\ UNCHANGED <<engineVars, now, flights, channel, listening, ops, probeVars, insightVars,
                   crmVars, syncVars>>

\* _sync_to_mongodb and the return of the result dict.
SyncAndReturn(c, mongo_ok) ==
    /\ call[c].pc = "sync"
    /\ price_history' = _sync_to_mongodb(call[c].flight, call[c].new_surge,
                                         call[c].new_price, call[c].breakdown, mongo_ok)
    /\ Return(c, UpdateResult(c))
    /\ UNCHANGED <<engineVars, now, pgVars, channel, listening, ops, probeVars, insightVars,
                   crmVars, syncVars>>

\* ------------------------------------------------------ batch_update_prices
\* SELECT flight_id FROM flights WHERE status = 'SCHEDULED'
ScheduledIds == {f \in FlightIds : flights[f] # NoRow /\ flights[f].status = "SCHEDULED"}

BatchLists == UNION {[1..n -> RequestIds] : n \in 0..MaxOps}

\* The orders in which a set of ids can come back from the query.
Orderings(S) ==
    {seq \in [1..Cardinality(S) -> S] : \A i, j \in 1..Cardinality(S) :
                                            i # j => seq[i] # seq[j]}

\* The loop of batch_update_prices over flight_ids starts: its first
\* iteration enters update_flight_price; over an empty list it returns [].
EnterBatch(c, ids) ==
    /\ call[c].pc = "idle"
    /\ ~batch[c].active
    /\ ops + Len(ids) <= MaxOps
    /\ ops' = ops + Len(ids)
    /\ IF Len(ids) = 0
       THEN /\ ret' = [ret EXCEPT ![c] =
                    [kind |-> "list", op |-> "batch", ids |-> ids, value |-> <<>>,
                     writes |-> 0]]
            /\ UNCHANGED <<call, batch>>
       ELSE /\ batch' = [batch EXCEPT ![c] =
                    [active |-> TRUE, ids |-> ids, idx |-> 1, updates |-> <<>>,
                     writes |-> 0]]
            /\ call' = [call EXCEPT ![c] = [pc |-> "select", flight_id |-> ids[1]]]
            /\ ret' = [ret EXCEPT ![c] = [kind |-> "pending", op |-> "batch"]]
    /\ UNCHANGED <<engineVars, now, pgVars, price_history, channel, listening, probeVars, insightVars,
                   crmVars, syncVars>>

\* batch_update_prices(flight_ids) on a given list.
StartBatch(c, ids) == EnterBatch(c, ids)

\* batch_update_prices(): all scheduled flights.
StartBatchAll(c) == \E ids \in Orderings(ScheduledIds) : EnterBatch(c, ids)

\* ------------------------------------------------- change notifications
ReviewIds  == 1..NumReviews
BookingIds == 1..NumBookings

ReviewEvent(review_id) == ChangeEvent("reviews", "UPDATE", review_id)

JSONDecodeError == [raises |-> "JSONDecodeError"]

\* json.loads(payload)
json_loads(payload) ==
    CASE payload.form = "garbage" -> JSONDecodeError
      [] payload.form = "array"   -> [list |-> TRUE]
      [] OTHER -> [ table |-> payload.table, operation |-> payload.operation,
                    record_id |-> payload.record_id ]

IsDict(data) == "table" \in DOMAIN data

\* ----------------------------------------------------- MongoDBSyncService
\* SELECT p.*, f.... FROM prices p JOIN flights f ... WHERE p.price_id = %s
SelectPriceJoin(price_id) ==
    LET hits == {f \in FlightIds : /\ prices[f] # NoRow
                                   /\ flights[f] # NoRow
                                   /\ prices[f].price_id = price_id}
    IN  IF hits = {} THEN NoRow
        ELSE LET f == CHOOSE f \in hits : TRUE
             IN  [ flight_id        |-> f,
                   base_price       |-> prices[f].base_price,
                   current_price    |-> prices[f].current_price,
                   surge_multiplier |-> prices[f].surge_multiplier,
                   available_seats  |-> flights[f].available_seats,
                   total_seats      |-> flights[f].total_seats ]

\* The snapshot dict built from a joined prices row.
RowSnapshot(price_data, triggered_by) ==
    [ timestamp        |-> now,
      base_price       |-> price_data.base_price,
      current_price    |-> price_data.current_price,
      surge_multiplier |-> price_data.surge_multiplier,
      available_seats  |-> price_data.available_seats,
      total_seats      |-> price_data.total_seats,
      occupancy_rate   |-> OccupancyPct(price_data.available_seats,
                                        price_data.total_seats),
      triggered_by     |-> triggered_by ]

\* SELECT b.*, ... FROM bookings b JOIN flights f ... JOIN customers c ...
\* WHERE b.booking_id = %s
SelectBookingJoin(booking_id) ==
    IF booking_id \in BookingIds /\ bookings[booking_id] # NoRow
                                 /\ flights[bookings[booking_id].flight_id] # NoRow
    THEN bookings[booking_id] ELSE NoRow

\* SELECT r.*, ... FROM reviews r JOIN flights f ... JOIN customers c ...
\* WHERE r.review_id = %s
SelectReviewJoin(review_id) ==
    IF review_id \in ReviewIds /\ reviews[review_id] # NoRow
                               /\ flights[reviews[review_id].flight_id] # NoRow
    THEN reviews[review_id] ELSE NoRow

\* review['status'].lower()
Lower(status) ==
    CASE status = "PUBLISHED" -> "published"
      [] status = "PENDING"   -> "pending"
      [] OTHER -> status

\* The review_doc of sync_review and sync_all_reviews.
ReviewDoc(review) ==
    [ flight_id     |-> review.flight_id,
      customer_id   |-> review.cust_id,
      booking_id    |-> review.booking_id,
      rating        |-> review.rating,
      helpful_votes |-> review.helpful_count,
      status        |-> Lower(review.status),
      updated_at    |-> now ]

\* The index of the first document of a collection that a filter matches.
\* 0 when there is none.  A filter is a record of field values, and a
\* document matches when it holds each of them.
FirstMatch(coll, filter) ==
    LET hits == {i \in 1..Len(coll) : \A k \in DOMAIN filter : coll[i][k] = filter[k]}
    IN  IF hits = {} THEN 0 ELSE SetMin(hits)

\* An update that inserts the document whatever the collection holds.
UpsertReview_Insert(coll, review_doc) == Append(coll, review_doc)

\* flight_reviews.update_one({'customer_id': ..., 'booking_id': ...},
\*                           {'$set': review_doc}, upsert=True)
UpsertReview(coll, review_doc) ==
    LET i == FirstMatch(coll, [ customer_id |-> review_doc.customer_id,
                                booking_id  |-> review_doc.booking_id ])
    IN  IF i = 0 THEN Append(coll, review_doc)
        ELSE [coll EXCEPT ![i] = review_doc]

\* f"sys_{cust_id}_{datetime.now().strftime('%Y%m%d')}"
SessionId(cust_id) == <<"sys", cust_id, now \div 24>>

\* The activity dict of sync_booking_behavior.
BookingActivity(booking) ==
    [ action    |-> "completed_booking",
      timestamp |-> now,
      details   |-> [ booking_id    |-> booking.booking_id,
                      flight_id     |-> booking.flight_id,
                      seats_booked  |-> booking.seats_booked,
                      total_cost    |-> booking.total_cost,
                      booking_class |-> booking.booking_class ] ]

\* customer_behavior.update_one({'customer_id': ..., 'session_id': ...},
\*     {'$push': {'activities': activity}, '$set': {'is_active': True,
\*      'session_end': now}, '$setOnInsert': {...}}, upsert=True)
PushActivity(coll, cust_id, activity) ==
    LET i == FirstMatch(coll, [ customer_id |-> cust_id,
                                session_id  |-> SessionId(cust_id) ])
    IN  IF i = 0
        THEN Append(coll, [ customer_id |-> cust_id, session_id |-> SessionId(cust_id),
                            activities |-> <<activity>>, is_active |-> TRUE,
                            session_end |-> now, session_start |-> now,
                            search_history |-> <<>>, abandoned_carts |-> <<>> ])
        ELSE [coll EXCEPT ![i] = [@ EXCEPT !.activities = Append(@, activity),
                                           !.is_active = TRUE,
                                           !.session_end = now]]

\* An update that pulls from the session document of the day alone.
PullAbandonedCarts_SessionOnly(coll, cust_id, flight_id) ==
    LET Keep(cart) == cart.flight_id # flight_id
    IN  [i \in 1..Len(coll) |->
            IF coll[i].customer_id = cust_id /\ coll[i].session_id = SessionId(cust_id)
            THEN [coll[i] EXCEPT !.abandoned_carts = SelectSeq(@, Keep)]
            ELSE coll[i]]

\* customer_behavior.update_many({'customer_id': ...},
\*     {'$pull': {'abandoned_carts': {'flight_id': ...}}})
PullAbandonedCarts(coll, cust_id, flight_id) ==
    LET Keep(cart) == cart.flight_id # flight_id
    IN  [i \in 1..Len(coll) |->
            IF coll[i].customer_id = cust_id
            THEN [coll[i] EXCEPT !.abandoned_carts = SelectSeq(@, Keep)]
            ELSE coll[i]]

\* The faults a handler can meet: a primary-store query that raises, a
\* secondary-store write that raises, update_many raising after update_one.
Faults == {"none", "pg", "mongo", "mongo_many"}

\* The service prints the outcome of the notification it has popped.
Printed(outcome) == log' = Append(log, [payload |-> Head(notifies), outcome |-> outcome])

\* A loop that goes back to the wait after each notification.
LoopOn_BackToWait == listener' = "select"

\* The while loop of run goes on: to the next pending notification, or
\* back to select.
LoopOn == listener' = IF Tail(notifies) = <<>> THEN "select" ELSE "drain"

\* except Exception as e: print("Error processing notification")
HandlerError == Printed("error") /\ UNCHANGED <<price_history, docVars>>

\* A handler that returns without a write (no branch taken, or no row).
NoSync == Printed("received") /\ UNCHANGED <<price_history, docVars>>

\* An exception handler that lets the decode error leave run.
DropPayload_Propagates ==
    /\ Printed("invalid json")
    /\ listener' = "crashed"
    /\ UNCHANGED <<price_history, docVars>>

\* except json.JSONDecodeError as e: print("Invalid JSON payload")
DropPayload ==
    /\ Printed("invalid json")
    /\ LoopOn
    /\ UNCHANGED <<price_history, docVars>>

sync_price_history(price_id, fault) ==
    IF fault = "pg" THEN HandlerError
    ELSE LET price_data == SelectPriceJoin(price_id)
         IN  IF price_data = NoRow THEN NoSync
             ELSE IF fault = "mongo" THEN HandlerError
             ELSE /\ price_history' = PushSnapshot(price_data.flight_id,
                                           RowSnapshot(price_data, "database_trigger"))
                  /\ Printed("price synced")
                  /\ UNCHANGED docVars

sync_booking_behavior(booking_id, fault) ==
    IF fault = "pg" THEN HandlerError
    ELSE LET booking == SelectBookingJoin(booking_id)
             pushed  == PushActivity(customer_behavior, booking.cust_id,
                                     BookingActivity(booking))
         IN  IF booking = NoRow THEN NoSync
             ELSE IF fault = "mongo" THEN HandlerError
             ELSE IF fault = "mongo_many"
             THEN /\ customer_behavior' = pushed
                  /\ Printed("error")
                  /\ UNCHANGED <<price_history, flight_reviews>>
             ELSE /\ customer_behavior' =
                        PullAbandonedCarts(pushed, booking.cust_id, booking.flight_id)
                  /\ Printed("booking synced")
                  /\ UNCHANGED <<price_history, flight_reviews>>

sync_review(review_id, fault) ==
    IF fault = "pg" THEN HandlerError
    ELSE LET review == SelectReviewJoin(review_id)
         IN  IF review = NoRow THEN NoSync
             ELSE IF fault = "mongo" THEN HandlerError
             ELSE /\ flight_reviews' = UpsertReview(flight_reviews, ReviewDoc(review))
                  /\ Printed("review synced")
                  /\ UNCHANGED <<price_history, customer_behavior>>

\* A dispatcher that looks at the operation and skips DELETE events.
process_notification_SkipsDelete(payload, fault) ==
    LET data == json_loads(payload)
    IN  IF data = JSONDecodeError THEN DropPayload
        ELSE /\ LoopOn
             /\ IF ~IsDict(data) THEN HandlerError
                ELSE IF data.operation = "DELETE" THEN NoSync
                ELSE CASE data.table = "prices"   ->
                              sync_price_history(data.record_id, fault)
                       [] data.table = "bookings" ->
                              sync_booking_behavior(data.record_id, fault)
                       [] data.table = "reviews"  ->
                              sync_review(data.record_id, fault)
                       [] OTHER -> NoSync

process_notification(payload, fault) ==
    LET data == json_loads(payload)
    IN  IF data = JSONDecodeError THEN DropPayload
        ELSE /\ LoopOn
             /\ IF ~IsDict(data) THEN HandlerError
                ELSE CASE data.table = "prices"   ->
                              sync_price_history(data.record_id, fault)
                       [] data.table = "bookings" ->
                              sync_booking_behavior(data.record_id, fault)
                       [] data.table = "reviews"  ->
                              sync_review(data.record_id, fault)
                       [] OTHER -> NoSync

\* self.connect(); self.running = True
Connect ==
    /\ listener = "init"
    /\ listener' = "select"
    /\ listening' = TRUE
    /\ UNCHANGED <<engineVars, now, pgVars, price_history, channel, callVars, probeVars, insightVars,
                   crmVars, docVars, notifies, log, bulk, events>>

\* select returns the connection as readable; self.conn.poll() moves what
\* has arrived into self.conn.notifies.  (A select that times out loops
\* without a change of state.)
Poll ==
    /\ listener = "select"
    /\ channel # <<>>
    /\ notifies' = notifies \o channel
    /\ channel' = <<>>
    /\ listener' = "drain"
    /\ UNCHANGED <<engineVars, now, pgVars, price_history, listening, callVars, probeVars, insightVars,
                   crmVars, docVars, log, bulk, events>>

\* A loop that keeps a notification whose handler failed at the head of
\* conn.notifies, to process it again.
ProcessNotification_Retries(fault) ==
    /\ listener = "drain"
    /\ notifies # <<>>
    /\ notifies' = IF fault = "none" THEN Tail(notifies) ELSE notifies
    /\ process_notification(Head(notifies), fault)
    /\ UNCHANGED <<engineVars, now, pgVars, channel, listening, callVars, probeVars, insightVars,
                   crmVars, bulk, events>>

\* notify = self.conn.notifies.pop(0); self.process_notification(notify.payload)
ProcessNotification(fault) ==
    /\ listener = "drain"
    /\ notifies # <<>>
    /\ notifies' = Tail(notifies)
    /\ process_notification(Head(notifies), fault)
    /\ UNCHANGED <<engineVars, now, pgVars, channel, listening, callVars, probeVars, insightVars,
                   crmVars, bulk, events>>

\* __main__: Ctrl-C raises KeyboardInterrupt inside run, at whatever
\* statement the loop has reached; it is no Exception, so nothing in run
\* catches it, and the except clause of __main__ calls stop(): running is
\* set to False and the connection closed.  What conn.notifies still holds
\* stays there.  (An interrupt inside a handler leaves no other state in
\* the stores than the faults of ProcessNotification do.)
Interrupt ==
    /\ listener \in {"select", "drain"}
    /\ listener' = "stopped"
    /\ listening' = FALSE
    /\ UNCHANGED <<engineVars, now, pgVars, price_history, channel, callVars, probeVars, insightVars,
                   crmVars, docVars, notifies, log, bulk, events>>

\* ------------------------------------------------------- BulkSyncService
NoBulk == [pc |-> "idle", rows |-> <<>>, runs |-> 0, completed |-> 0]

IsRow(row) == row # NoRow

\* sync_all starts; sync_all_prices runs its SELECT over prices JOIN flights.
BulkSelectPrices ==
    /\ bulk.pc \in {"idle", "done", "failed"}
    /\ bulk.runs < MaxBulk
    /\ bulk' = [ pc |-> "prices", runs |-> bulk.runs + 1, completed |-> bulk.completed,
                 rows |-> SelectSeq([f \in 1..NumFlights |-> SelectPriceJoin(PriceIdOf(f))],
                                    IsRow) ]
    /\ UNCHANGED <<engineVars, now, pgVars, price_history, channel, listening, callVars,
                   probeVars, insightVars, crmVars, docVars, listener, notifies, log, events>>

\* A loop that leaves alone a flight whose history holds a bulk snapshot.
BulkSyncPrice_Dedup ==
    /\ bulk.pc = "prices"
    /\ bulk.rows # <<>>
    /\ price_history' =
          IF \E i \in 1..Len(SnapshotsOf(Head(bulk.rows).flight_id)) :
                 SnapshotsOf(Head(bulk.rows).flight_id)[i].triggered_by = "bulk_sync"
          THEN price_history
          ELSE PushSnapshot(Head(bulk.rows).flight_id,
                            RowSnapshot(Head(bulk.rows), "bulk_sync"))
    /\ bulk' = [bulk EXCEPT !.rows = Tail(@)]
    /\ UNCHANGED <<engineVars, now, pgVars, channel, listening, callVars, probeVars, insightVars,
                   crmVars, docVars, listener, notifies, log, events>>

\* One iteration of the loop of sync_all_prices.
BulkSyncPrice ==
    /\ bulk.pc = "prices"
    /\ bulk.rows # <<>>
    /\ price_history' = PushSnapshot(Head(bulk.rows).flight_id,
                                     RowSnapshot(Head(bulk.rows), "bulk_sync"))
    /\ bulk' = [bulk EXCEPT !.rows = Tail(@)]
    /\ UNCHANGED <<engineVars, now, pgVars, channel, listening, callVars, probeVars, insightVars,
                   crmVars, docVars, listener, notifies, log, events>>

\* sync_all_reviews runs its SELECT over reviews JOIN flights.
BulkSelectReviews ==
    /\ bulk.pc = "prices"
    /\ bulk.rows = <<>>
    /\ bulk' = [bulk EXCEPT !.pc = "reviews",
                            !.rows = SelectSeq([r \in 1..NumReviews |-> SelectReviewJoin(r)],
                                               IsRow)]
    /\ UNCHANGED <<engineVars, now, pgVars, price_history, channel, listening, callVars,
                   probeVars, insightVars, crmVars, docVars, listener, notifies, log, events>>

\* One iteration of the loop of sync_all_reviews.
BulkSyncReview ==
    /\ bulk.pc = "reviews"
    /\ bulk.rows # <<>>
    /\ flight_reviews' = UpsertReview(flight_reviews, ReviewDoc(Head(bulk.rows)))
    /\ bulk' = [bulk EXCEPT !.rows = Tail(@)]
    /\ UNCHANGED <<engineVars, now, pgVars, price_history, channel, listening, callVars,
                   probeVars, insightVars, crmVars, customer_behavior, listener, notifies, log, events>>

\* sync_all returns.
BulkFinish ==
    /\ bulk.pc = "reviews"
    /\ bulk.rows = <<>>
    /\ bulk' = [bulk EXCEPT !.pc = "done", !.completed = @ + 1]
    /\ UNCHANGED <<engineVars, now, pgVars, price_history, channel, listening, callVars,
                   probeVars, insightVars, crmVars, docVars, listener, notifies, log, events>>

\* A query or a write of sync_all raises; nothing catches it.
BulkFails ==
    /\ bulk.pc \in {"prices", "reviews"}
    /\ bulk' = [bulk EXCEPT !.pc = "failed", !.rows = <<>>]
    /\ UNCHANGED <<engineVars, now, pgVars, price_history, channel, listening, callVars,
                   probeVars, insightVars, crmVars, docVars, listener, notifies, log, events>>

\* ------------------------------------------------- other database sessions
\* ReviewService.mark_helpful: UPDATE reviews SET helpful_count =
\* helpful_count + 1 WHERE review_id = %s; the row-change trigger on reviews
\* queues the notification.
MarkHelpful(review_id) ==
    /\ events < MaxEvents
    /\ IF review_id \in ReviewIds /\ reviews[review_id] # NoRow
       THEN /\ reviews' = [reviews EXCEPT ![review_id].helpful_count = @ + 1]
            /\ channel' = Notify(ReviewEvent(review_id))
            /\ events' = events + 1
       ELSE UNCHANGED <<reviews, channel, events>>
    /\ UNCHANGED <<engineVars, now, pgVars, price_history, listening, callVars, probeVars, insightVars,
                   bookings, docVars, listener, notifies, log, bulk>>

\* The payloads that reach the channel from other sessions and from the
\* triggers on bookings and prices: a re-sent change event, an event of an
\* untracked table or an absent row, and text that is not an event.
ExternalPayloads ==
    { GarbagePayload, ArrayPayload,
      ChangeEvent("flights", "UPDATE", 1),
      ChangeEvent("prices", "UPDATE", PriceIdOf(1)),
      ChangeEvent("prices", "UPDATE", PriceIdOf(NumFlights + 1)),
      ChangeEvent("bookings", "INSERT", 1),
      ChangeEvent("reviews", "INSERT", 1) }

\* NOTIFY mongodb_sync, payload
ExternalNotify(payload) ==
    /\ listening
    /\ events < MaxEvents
    /\ events' = events + 1
    /\ channel' = Notify(payload)
    /\ UNCHANGED <<engineVars, now, pgVars, price_history, listening, callVars, probeVars, insightVars,
                   crmVars, docVars, listener, notifies, log, bulk>>

\* The operations a row-change event can name.
Operations == {"INSERT", "UPDATE", "DELETE"}

\* Another session deletes a reviews row; the trigger notifies the DELETE.
DeleteReviewRow(review_id) ==
    /\ events < MaxEvents
    /\ reviews[review_id] # NoRow
    /\ reviews' = [reviews EXCEPT ![review_id] = NoRow]
    /\ channel' = Notify(ChangeEvent("reviews", "DELETE", review_id))
    /\ events' = events + 1
    /\ UNCHANGED <<engineVars, now, pgVars, price_history, listening, callVars, probeVars, insightVars,
                   bookings, docVars, listener, notifies, log, bulk>>

\* Another session deletes a prices row; the trigger notifies the DELETE.
DeletePriceRow(flight_id) ==
    /\ events < MaxEvents
    /\ prices[flight_id] # NoRow
    /\ prices' = [prices EXCEPT ![flight_id] = NoRow]
    /\ channel' = Notify(ChangeEvent("prices", "DELETE", PriceIdOf(flight_id)))
    /\ events' = events + 1
    /\ UNCHANGED <<engineVars, now, flights, price_history, listening, callVars, probeVars,
                   insightVars, crmVars, docVars, listener, notifies, log, bulk>>

\* Row-change events of every operation, on the three synced tables and on
\* a table that has no handler.
DispatchPayloads ==
    { ChangeEvent(table, operation, 1) :
          table \in {"bookings", "reviews", "flights"}, operation \in Operations }
    \cup { ChangeEvent("prices", operation, PriceIdOf(1)) : operation \in Operations }

\* ------------------------------------------- PricingRecommendationEngine
\* timedelta(hours=6)
InsightExpiryHours == 6

\* The record _analyze_price_history falls back to.
UnknownHistory ==
    [ avg_price_30d |-> 0, avg_occupancy_30d |-> 0,
      price_trend |-> "unknown", demand_trend |-> "unknown" ]

\* The $match/$unwind/$group pipeline over the flight's snapshots: one
\* group when there is a snapshot, no result otherwise.  An average is kept
\* as the fraction sum/count.
AggregateHistory(flight_id) ==
    LET snaps == SnapshotsOf(flight_id)
        price == [i \in 1..Len(snaps) |-> snaps[i].current_price]
        occ   == [i \in 1..Len(snaps) |-> snaps[i].occupancy_rate]
    IN  IF snaps = <<>> THEN <<>>
        ELSE << [ avg_price      |-> [num |-> SeqSum(price), den |-> Len(snaps)],
                  avg_occupancy  |-> [num |-> SeqSum(occ), den |-> Len(snaps)],
                  min_price      |-> SetMin({price[i] : i \in 1..Len(snaps)}),
                  max_price      |-> SetMax({price[i] : i \in 1..Len(snaps)}),
                  snapshot_count |-> Len(snaps) ] >>

\* An analysis that reports statistics also when the pipeline has no result.
_analyze_price_history_NoFallback(flight_id, agg_ok) ==
    IF ~agg_ok THEN UnknownHistory
    ELSE [ avg_price_30d |-> 0, avg_occupancy_30d |-> 0,
           price_range |-> [min |-> 0, max |-> 0],
           data_points |-> Len(SnapshotsOf(flight_id)),
           price_trend |-> "stable", demand_trend |-> "stable" ]

\* _analyze_price_history: with agg_ok false aggregate raises and the except
\* clause passes.
_analyze_price_history(flight_id, agg_ok) ==
    LET result == IF agg_ok THEN AggregateHistory(flight_id) ELSE <<>>
    IN  IF result # <<>>
        THEN [ avg_price_30d     |-> result[1].avg_price,
               avg_occupancy_30d |-> result[1].avg_occupancy,
               price_range       |-> [min |-> result[1].min_price,
                                      max |-> result[1].max_price],
               data_points       |-> result[1].snapshot_count,
               price_trend       |-> "stable",
               demand_trend      |-> "stable" ]
        ELSE UnknownHistory

\* int(total_seats * min(occupancy + 0.1, 1.0)): the floor of the product;
\* where the product is a whole number and the float occupancy lies below
\* the fraction, the float product lies below it too and int() cuts it to
\* the number before.
ExpectedDemand(total_seats, rate) ==
    LET n == total_seats * (10 * rate.num + rate.den)
        d == 10 * rate.den
    IN  IF n > total_seats * d THEN total_seats
        ELSE IF n % d = 0 /\ rate.err < 0 THEN (n \div d) - 1
        ELSE n \div d

\* _generate_predictions, for the float occupancy the call computes: prices
\* in hundredths of a unit, surge and probabilities in hundredths.
_generate_predictions(flight, rate) ==
    LET current_price == flight.current_price
        optimal == IF RateLt(rate, 50) THEN RoundNearest(current_price * 95, 100)
                   ELSE IF RateGt(rate, 80) THEN RoundNearest(current_price * 110, 100)
                   ELSE {current_price}
    IN  UNION { { [ optimal_price        |-> optimal_price,
                    expected_demand      |-> ExpectedDemand(flight.total_seats, rate),
                    recommended_surge    |-> recommended_surge,
                    confidence_score     |-> 75,
                    sell_out_probability |-> Min2(sell_out, 100) ] :
                  recommended_surge \in RoundNearest(optimal_price, flight.base_price),
                  sell_out \in RoundNearest(120 * rate.num, rate.den) }
              : optimal_price \in optimal }

\* Rules in which the last-minute rule is tried only when no other fired.
_generate_recommendations_Elif(flight, rate, t) ==
    LET days_to_dep == DaysToDeparture(flight.dep_time, t)
        first == (IF RateLt(rate, 30) /\ days_to_dep < 7
                  THEN << [ action |-> "Apply promotional discount", priority |-> "high" ] >>
                  ELSE <<>>)
                 \o
                 (IF RateGt(rate, 85)
                  THEN << [ action |-> "Increase surge multiplier", priority |-> "high" ] >>
                  ELSE <<>>)
    IN  IF first # <<>> THEN first
        ELSE IF days_to_dep <= 1 /\ flight.available_seats > 0
        THEN << [ action |-> "Last-minute deal or premium pricing",
                  priority |-> "medium" ] >>
        ELSE <<>>

\* Rules in which the surge rule fires from an occupancy of 0.15.
_generate_recommendations_Eager(flight, rate, t) ==
    LET days_to_dep == DaysToDeparture(flight.dep_time, t)
    IN  (IF RateLt(rate, 30) /\ days_to_dep < 7
         THEN << [ action |-> "Apply promotional discount", priority |-> "high" ] >>
         ELSE <<>>)
        \o
        (IF RateGt(rate, 15)
         THEN << [ action |-> "Increase surge multiplier", priority |-> "high" ] >>
         ELSE <<>>)
        \o
        (IF days_to_dep <= 1 /\ flight.available_seats > 0
         THEN << [ action |-> "Last-minute deal or premium pricing",
                   priority |-> "medium" ] >>
         ELSE <<>>)

\* _generate_recommendations: the three rules, each on its own.
_generate_recommendations(flight, rate, t) ==
    LET days_to_dep == DaysToDeparture(flight.dep_time, t)
    IN  (IF RateLt(rate, 30) /\ days_to_dep < 7
         THEN << [ action |-> "Apply promotional discount", priority |-> "high" ] >>
         ELSE <<>>)
        \o
        (IF RateGt(rate, 85)
         THEN << [ action |-> "Increase surge multiplier", priority |-> "high" ] >>
         ELSE <<>>)
        \o
        (IF days_to_dep <= 1 /\ flight.available_seats > 0
         THEN << [ action |-> "Last-minute deal or premium pricing",
                   priority |-> "medium" ] >>
         ELSE <<>>)

\* An insight whose expiry is its generation time.
BuildInsight_NoWindow(flight, history, predictions, recommendations, t) ==
    [ flight_id           |-> flight.flight_id,
      predictions         |-> predictions,
      market_factors      |-> [ days_to_departure |-> DaysToDeparture(flight.dep_time, t) ],
      historical_analysis |-> history,
      recommendations     |-> recommendations,
      model_version       |-> "1.0.0",
      generated_at        |-> t,
      expires_at          |-> t ]

\* The insight dict of generate_insights.
BuildInsight(flight, history, predictions, recommendations, t) ==
    [ flight_id           |-> flight.flight_id,
      predictions         |-> predictions,
      market_factors      |->
          [ days_to_departure  |-> DaysToDeparture(flight.dep_time, t),
            current_occupancy  |-> OccupancyPct(flight.available_seats, flight.total_seats),
            seasonality_factor |-> 100,
            day_of_week_factor |-> 100 ],
      historical_analysis |-> history,
      recommendations     |-> recommendations,
      model_version       |-> "1.0.0",
      generated_at        |-> t,
      expires_at          |-> t + InsightExpiryHours ]

\* An update that keeps what the stored document recommends and adds to it.
UpsertInsight_KeepsOld(coll, insight) ==
    LET i == FirstMatch(coll, [flight_id |-> insight.flight_id])
    IN  IF i = 0 THEN Append(coll, insight)
        ELSE [coll EXCEPT ![i] =
                 [insight EXCEPT !.recommendations = coll[i].recommendations \o @]]

\* ai_pricing_insights.update_one({'flight_id': ...}, {'$set': insight},
\* upsert=True): $set writes the fields of insight and leaves any other
\* field of the stored document.
UpsertInsight(coll, insight) ==
    LET i == FirstMatch(coll, [flight_id |-> insight.flight_id])
    IN  IF i = 0 THEN Append(coll, insight)
        ELSE [coll EXCEPT ![i] =
                 [k \in (DOMAIN coll[i]) \cup (DOMAIN insight) |->
                     IF k \in DOMAIN insight THEN insight[k] ELSE coll[i][k]]]

\* _store_insight: with mongo_ok false update_one raises and the except
\* clause prints the error.
_store_insight(insight, mongo_ok) ==
    IF mongo_ok THEN UpsertInsight(ai_pricing_insights, insight)
    ELSE ai_pricing_insights

\* A caller enters generate_insights(flight_id).
StartInsights(c, fid) ==
    /\ call[c].pc = "idle"
    /\ ~batch[c].active
    /\ ops + 1 <= MaxOps
    /\ ops' = ops + 1
    /\ call' = [call EXCEPT ![c] = [pc |-> "insight_select", flight_id |-> fid]]
    /\ ret' = [ret EXCEPT ![c] = [kind |-> "pending", op |-> "insights"]]
    /\ UNCHANGED <<engineVars, now, pgVars, price_history, channel, listening, batch,
                   probeVars, insightVars, crmVars, syncVars>>

\* generate_insights raises.
InsightRaise(c, err) ==
    /\ call' = [call EXCEPT ![c] = NoCall]
    /\ ret' = [ret EXCEPT ![c] =
                  [kind |-> "raise", op |-> "insights",
                   flight_id |-> call[c].flight_id, error |-> err, at |-> call[c].pc]]

\* The SELECT of generate_insights and the not-found check; with pg_ok false
\* the query raises.
InsightSelect(c, pg_ok) ==
    /\ call[c].pc = "insight_select"
    /\ LET flight == SelectFlightJoin(call[c].flight_id)
       IN  IF ~pg_ok THEN InsightRaise(c, "db error")
           ELSE IF flight = NoRow THEN InsightRaise(c, "not found")
           ELSE /\ call' = [call EXCEPT ![c] =
                       [ pc |-> "insight_analyze", flight_id |-> call[c].flight_id,
                         flight |-> flight ]]
                /\ ret' = ret
    /\ UNCHANGED <<engineVars, now, pgVars, price_history, channel, listening, batch, ops,
                   probeVars, insightVars, crmVars, syncVars>>

\* _analyze_price_history, _generate_predictions, _generate_recommendations
\* and the insight dict.
InsightAnalyze(c, agg_ok) ==
    /\ call[c].pc = "insight_analyze"
    /\ LET flight == call[c].flight
       IN  \E rate \in OccupancyRates(flight.available_seats, flight.total_seats) :
           \E predictions \in _generate_predictions(flight, rate) :
               call' = [call EXCEPT ![c] =
                   [ pc |-> "insight_store", flight_id |-> call[c].flight_id,
                     insight |-> BuildInsight(flight,
                                     _analyze_price_history(call[c].flight_id, agg_ok),
                                     predictions,
                                     _generate_recommendations(flight, rate, now),
                                     now) ]]
    /\ UNCHANGED <<engineVars, now, pgVars, price_history, channel, listening, batch, ret,
                   ops, probeVars, insightVars, crmVars, syncVars>>

\* _store_insight and the return of the insight.
InsightStore(c, mongo_ok) ==
    /\ call[c].pc = "insight_store"
    /\ ai_pricing_insights' = _store_insight(call[c].insight, mongo_ok)
    /\ call' = [call EXCEPT ![c] = NoCall]
    /\ ret' = [ret EXCEPT ![c] = [kind |-> "value", op |-> "insights",
                                  value |-> call[c].insight]]
    /\ UNCHANGED <<engineVars, now, pgVars, price_history, channel, listening, batch, ops,
                   probeVars, crmVars, syncVars>>

\* --------------------------------------------------------------- the clock
\* Time passes between two steps.
Tick ==
    /\ now < MaxClock
    /\ now' = now + ClockStep
    /\ UNCHANGED <<engineVars, pgVars, price_history, channel, listening, callVars,
                   probeVars, insightVars, crmVars, syncVars>>

\* ------------------------------------------- calculate_price (direct calls)
\* calculate_surge_multiplier called on given arguments.
CalculateSurge ==
    /\ surge_in # NoCall
    /\ surge_out = NoRet
    /\ \E r \in calculate_surge_multiplier(surge_in.available_seats,
                    surge_in.total_seats, surge_in.dep_time, now,
                    min_multiplier, max_multiplier) :
          surge_out' = [kind |-> "value", value |-> r]
    /\ UNCHANGED <<engineVars, now, pgVars, price_history, channel, listening, callVars,
                   surge_in, insightVars, crmVars, syncVars>>

\* -------------------------------------------------------------- initial state
\* add_flight's default base price.
DefaultBasePrice == 5000

\* The flights of the model: a nearly full flight two days out (Tuesday
\* 08:00) and a nearly empty one 120 days out (Wednesday 03:00).
FlightCatalog ==
    << [ available_seats |-> 1, total_seats |-> MaxSeats, status |-> "SCHEDULED",
         dep_time |-> [ord |-> 2, hour |-> 8, weekday |-> 1, month |-> 3, day |-> 10] ],
       [ available_seats |-> MaxSeats - 1, total_seats |-> MaxSeats, status |-> "SCHEDULED",
         dep_time |-> [ord |-> 120, hour |-> 3, weekday |-> 2, month |-> 3, day |-> 11] ] >>

InitFlightRow(f) == FlightCatalog[((f - 1) % Len(FlightCatalog)) + 1]

\* add_flight: INSERT INTO prices (..., base_price, base_price, 1.0, NOW())
InitPriceRow(f) ==
    [ price_id |-> PriceIdOf(f), flight_id |-> f, base_price |-> DefaultBasePrice,
      current_price |-> DefaultBasePrice * 100, surge_multiplier |-> 100,
      last_updated |-> 0 ]

\* Booking b is of customer b, on the flights in turn.
InitBookingRow(b) ==
    [ booking_id |-> b, cust_id |-> b, flight_id |-> ((b - 1) % NumFlights) + 1,
      seats_booked |-> 1, total_cost |-> DefaultBasePrice * 100,
      booking_class |-> "ECONOMY" ]

\* Reviews 2b-1 and 2b are both of booking b, with different ratings.
InitReviewRow(r) ==
    LET b == InitBookingRow(((((r + 1) \div 2) - 1) % NumBookings) + 1)
    IN  [ review_id |-> r, flight_id |-> b.flight_id, cust_id |-> b.cust_id,
          booking_id |-> b.booking_id, rating |-> 5 - (r % 4), helpful_count |-> 0,
          status |-> "PUBLISHED" ]

\* The (min_multiplier, max_multiplier) pairs an engine is constructed with:
\* the defaults, bounds that cut into the range of the weighted sum
\* (0.88 .. 2.167), and bounds that are not whole hundredths.
EngineBounds ==
    { <<DefaultMinMultiplier, DefaultMaxMultiplier>>, <<10000, 15000>>,
      <<8840, DefaultMaxMultiplier>>, <<DefaultMinMultiplier, 16550>>, <<12000, 12000>> }

\* The engines of the running system.
SystemBounds ==
    { <<DefaultMinMultiplier, DefaultMaxMultiplier>>, <<8840, DefaultMaxMultiplier>> }

\* Everything but the flights rows and customer_behavior.
InitRest ==
    /\ prices = [f \in RequestIds |-> IF f \in FlightIds THEN InitPriceRow(f) ELSE NoRow]
    /\ listening = FALSE
    /\ price_history = [f \in FlightIds |-> NoDoc]
    /\ channel = <<>>
    /\ call = [c \in Callers |-> NoCall]
    /\ batch = [c \in Callers |-> NoBatch]
    /\ ret = [c \in Callers |-> NoRet]
    /\ ops = 0
    /\ reviews = [r \in ReviewIds |-> InitReviewRow(r)]
    /\ bookings = [b \in BookingIds |-> InitBookingRow(b)]
    /\ flight_reviews = <<>>
    /\ listener = "init"
    /\ notifies = <<>>
    /\ log = <<>>
    /\ bulk = NoBulk
    /\ events = 0
    /\ ai_pricing_insights = <<>>

InitTables ==
    /\ flights = [f \in RequestIds |-> IF f \in FlightIds THEN InitFlightRow(f) ELSE NoRow]
    /\ InitRest

InitSystem ==
    /\ InitTables
    /\ customer_behavior = <<>>

Init ==
    /\ InitSystem
    /\ \E b \in SystemBounds : min_multiplier = b[1] /\ max_multiplier = b[2]
    /\ now = 0
    /\ surge_in = NoCall
    /\ surge_out = NoRet

\* The arguments of the direct calls that are checked.
SurgeDepTimes ==
    { [ord |-> o, hour |-> h, weekday |-> w, month |-> md[1], day |-> md[2]] :
        o \in {-1, 0, 1, 2, 5, 10, 20, 45, 75, 120},
        h \in {3, 8, 10, 13, 15, 18, 22},
        w \in 0..6,
        md \in {<<3, 10>>, <<8, 15>>, <<4, 1>>, <<12, 25>>} }

SurgeInputs ==
    { [available_seats |-> a, total_seats |-> t, dep_time |-> d] :
        t \in {0, MaxSeats}, a \in 0..MaxSeats, d \in SurgeDepTimes }

InitSurge ==
    /\ InitSystem
    /\ \E b \in EngineBounds : min_multiplier = b[1] /\ max_multiplier = b[2]
    /\ now \in {0, ClockStep}
    /\ surge_in \in {x \in SurgeInputs : x.available_seats <= x.total_seats}
    /\ surge_out = NoRet

\* Direct calls on a flight whose seat count puts an occupancy on every
\* threshold of OCCUPANCY_THRESHOLDS (6, 10, 14, 17, 19 and 20 of 20).
TierDepTimes ==
    { [ord |-> o, hour |-> h, weekday |-> 1, month |-> md[1], day |-> md[2]] :
        o \in {0, 2, 120}, h \in {3, 8}, md \in {<<3, 10>>, <<12, 25>>} }

InitTiers ==
    /\ InitSystem
    /\ \E b \in EngineBounds : min_multiplier = b[1] /\ max_multiplier = b[2]
    /\ now = 0
    /\ surge_in \in { [available_seats |-> a, total_seats |-> TierSeats, dep_time |-> d] :
                         a \in 0..TierSeats, d \in TierDepTimes }
    /\ surge_out = NoRet

\* ------------------------------------------------------------ specifications
NextSurge == CalculateSurge

SpecSurge == InitSurge /\ [][NextSurge]_vars

SpecTiers == InitTiers /\ [][NextSurge]_vars

NextPricing ==
    \/ \E c \in Callers, fid \in RequestIds : StartRefresh(c, fid)
    \/ \E c \in Callers, ids \in BatchLists : StartBatch(c, ids)
    \/ \E c \in Callers : StartBatchAll(c)
    \/ \E c \in Callers : SelectAndCompute(c)
    \/ \E c \in Callers : UpdatePrice(c)
    \/ \E c \in Callers : QueryFails(c)
    \/ \E c \in Callers, mongo_ok \in BOOLEAN : SyncAndReturn(c, mongo_ok)

SpecPricing == Init /\ [][NextPricing]_vars

\* The listener under the changes and notifications of other sessions.
InitSync ==
    /\ InitSystem
    /\ min_multiplier = DefaultMinMultiplier
    /\ max_multiplier = DefaultMaxMultiplier
    /\ now = 0
    /\ surge_in = NoCall
    /\ surge_out = NoRet

ListenerStep ==
    \/ Connect
    \/ Poll
    \/ \E fault \in Faults : ProcessNotification(fault)

NextSync ==
    \/ ListenerStep
    \/ \E r \in 1..(NumReviews + 1) : MarkHelpful(r)
    \/ \E payload \in ExternalPayloads : ExternalNotify(payload)

SpecSync == InitSync /\ [][NextSync]_vars

\* The listener thread runs whenever it can take a step.
SpecSyncFair == SpecSync /\ WF_vars(ListenerStep)

\* The listener, with other sessions that insert, update and delete rows.
NextDispatch ==
    \/ ListenerStep
    \/ \E payload \in DispatchPayloads : ExternalNotify(payload)
    \/ \E r \in ReviewIds : DeleteReviewRow(r)
    \/ \E f \in FlightIds : DeletePriceRow(f)

SpecDispatch == InitSync /\ [][NextDispatch]_vars

\* The listener, the other sessions, and Ctrl-C on the service's terminal.
NextShutdown ==
    \/ NextSync
    \/ Interrupt

SpecShutdown == InitSync /\ [][NextShutdown]_vars

\* Price refreshes and insight generation side by side, as time passes.
NextInsight ==
    \/ \E c \in Callers, fid \in FlightIds : StartRefresh(c, fid)
    \/ \E c \in Callers : SelectAndCompute(c)
    \/ \E c \in Callers : UpdatePrice(c)
    \/ \E c \in Callers, mongo_ok \in BOOLEAN : SyncAndReturn(c, mongo_ok)
    \/ \E c \in Callers, fid \in RequestIds : StartInsights(c, fid)
    \/ \E c \in Callers, pg_ok \in BOOLEAN : InsightSelect(c, pg_ok)
    \/ \E c \in Callers, agg_ok \in BOOLEAN : InsightAnalyze(c, agg_ok)
    \/ \E c \in Callers, mongo_ok \in BOOLEAN : InsightStore(c, mongo_ok)
    \/ Tick

SpecInsight == InitSync /\ [][NextInsight]_vars

\* The listener with both stores answering.
ListenerStepOk ==
    \/ Connect
    \/ Poll
    \/ ProcessNotification("none")

\* Price refreshes made while the sync service listens, with both stores
\* answering, as time passes.
NextPropagation ==
    \/ ListenerStepOk
    \/ \E c \in Callers, fid \in FlightIds :
          listening /\ ops < MaxPropagationOps /\ StartRefresh(c, fid)
    \/ \E c \in Callers : SelectAndCompute(c)
    \/ \E c \in Callers : UpdatePrice(c)
    \/ \E c \in Callers : SyncAndReturn(c, TRUE)
    \/ Tick

SpecPropagation == InitSync /\ [][NextPropagation]_vars

\* The listener thread runs whenever it can take a step.
SpecPropagationFair == SpecPropagation /\ WF_vars(ListenerStepOk)

\* generate_insights on a flight in any state of its seats (0..20 of 20
\* free, so that occupancies 0.30 and 0.85 occur) and at departures from
\* yesterday to more than a week ahead.
RecommendFlights ==
    { [ available_seats |-> a, total_seats |-> TierSeats, status |-> "SCHEDULED",
        dep_time |-> [ord |-> o, hour |-> 8, weekday |-> 1, month |-> 3, day |-> 10] ] :
        a \in 0..TierSeats, o \in {-1, 0, 1, 2, 6, 7, 8} }

InitRecommend ==
    /\ \E row \in RecommendFlights :
          flights = [f \in RequestIds |->
                        IF f = 1 THEN row
                        ELSE IF f \in FlightIds THEN InitFlightRow(f) ELSE NoRow]
    /\ InitRest
    /\ customer_behavior = <<>>
    /\ min_multiplier = DefaultMinMultiplier
    /\ max_multiplier = DefaultMaxMultiplier
    /\ now = 0
    /\ surge_in = NoCall
    /\ surge_out = NoRet

NextRecommend ==
    \/ \E c \in Callers, fid \in RequestIds : ops < MaxRecommendOps /\ StartInsights(c, fid)
    \/ \E c \in Callers, pg_ok \in BOOLEAN : InsightSelect(c, pg_ok)
    \/ \E c \in Callers, agg_ok \in BOOLEAN : InsightAnalyze(c, agg_ok)
    \/ \E c \in Callers, mongo_ok \in BOOLEAN : InsightStore(c, mongo_ok)
    \/ Tick

SpecRecommend == InitRecommend /\ [][NextRecommend]_vars

\* The three writers of price_history side by side: price refreshes, the
\* listener on their change notifications, and the bulk sync.
NextHistory ==
    \/ ListenerStep
    \/ bulk.runs < MaxHistoryBulk /\ BulkSelectPrices
    \/ BulkSyncPrice
    \/ BulkSelectReviews
    \/ BulkSyncReview
    \/ BulkFinish
    \/ BulkFails
    \/ \E c \in Callers, fid \in FlightIds : ops < MaxHistoryOps /\ StartRefresh(c, fid)
    \/ \E c \in Callers : SelectAndCompute(c)
    \/ \E c \in Callers : UpdatePrice(c)
    \/ \E c \in Callers, mongo_ok \in BOOLEAN : SyncAndReturn(c, mongo_ok)

SpecHistory == InitSync /\ [][NextHistory]_vars

\* An entry of abandoned_carts, with the fields get_abandoned_carts reads.
Cart(flight_id) ==
    [ flight_id |-> flight_id, price_at_abandonment |-> DefaultBasePrice * 100,
      abandoned_at |-> 0 ]

\* A CustomerBehavior document of a browsing session.
BehaviorDoc(cust_id, session_id, carts) ==
    [ customer_id |-> cust_id, session_id |-> session_id, activities |-> <<>>,
      is_active |-> FALSE, session_end |-> 0, session_start |-> 0,
      search_history |-> <<>>, abandoned_carts |-> carts ]

\* What customer_behavior holds when the service starts: sessions of the
\* booking's customer and of another customer with carts for both flights;
\* the same with the customer's session of the day already there; and a
\* collection with no document of the booking's customer.
CartSeeds ==
    { << BehaviorDoc(1, <<"web", 1, 7>>, <<Cart(1), Cart(2)>>),
         BehaviorDoc(2, <<"web", 2, 3>>, <<Cart(1)>>) >>,
      << BehaviorDoc(1, <<"sys", 1, 0>>, <<Cart(1)>>),
         BehaviorDoc(2, <<"sys", 2, 0>>, <<Cart(2), Cart(1)>>),
         BehaviorDoc(1, <<"web", 1, 7>>, <<Cart(2), Cart(1), Cart(1)>>) >>,
      << BehaviorDoc(2, <<"web", 2, 3>>, <<Cart(1)>>) >> }

InitCarts ==
    /\ InitTables
    /\ customer_behavior \in CartSeeds
    /\ min_multiplier = DefaultMinMultiplier
    /\ max_multiplier = DefaultMaxMultiplier
    /\ now = 0
    /\ surge_in = NoCall
    /\ surge_out = NoRet

\* The listener over a collection that holds abandoned carts.
NextCarts ==
    \/ ListenerStep
    \/ \E payload \in ExternalPayloads : ExternalNotify(payload)

SpecCarts == InitCarts /\ [][NextCarts]_vars

\* sync_all run again and again over tables that nothing changes, next to
\* the listener on notifications re-sent by other sessions.
NextBulk ==
    \/ ListenerStep
    \/ \E payload \in ExternalPayloads : ExternalNotify(payload)
    \/ BulkSelectPrices
    \/ BulkSyncPrice
    \/ BulkSelectReviews
    \/ BulkSyncReview
    \/ BulkFinish
    \/ BulkFails

SpecBulk == InitSync /\ [][NextBulk]_vars

\* ==================================================================== claims

IsError(entry) == "error" \in DOMAIN entry

\* Caller c takes a step of its call.
Steps(c) == <<call[c], batch[c], ret[c]>>' # <<call[c], batch[c], ret[c]>>

StoresUnchanged == UNCHANGED <<flights, prices, price_history, channel>>

\* C1: for every occupancy rate in [0,1], every timing input and every
\* configured pair min_multiplier <= max_multiplier, the multiplier that
\* calculate_surge_multiplier returns lies in [min_multiplier, max_multiplier].
C1_SurgeWithinBounds ==
    (surge_out.kind = "value" /\ min_multiplier <= max_multiplier) =>
        /\ min_multiplier <= surge_out.value.multiplier * 100
        /\ surge_out.value.multiplier * 100 <= max_multiplier

\* A direct call under the default bounds with the given occupancy (in
\* tenths), days to departure, hour and weekday, in March.
C2_Example(occupied_tenths, days, hour, weekday) ==
    /\ surge_out.kind = "value"
    /\ min_multiplier = DefaultMinMultiplier
    /\ max_multiplier = DefaultMaxMultiplier
    /\ surge_in.total_seats > 0
    /\ 10 * (surge_in.total_seats - surge_in.available_seats)
           = occupied_tenths * surge_in.total_seats
    /\ surge_out.value.breakdown.days_to_departure = days
    /\ surge_in.dep_time.hour = hour
    /\ surge_in.dep_time.weekday = weekday
    /\ surge_in.dep_time.month = 3

C2_FactorsAre(occ, dep, tm, dy, ss) ==
    surge_out.value.breakdown.factors =
        [ occupancy |-> occ, departure_timing |-> dep, time_of_day |-> tm,
          day_of_week |-> dy, seasonal |-> ss ]

\* C2: the returned multiplier is the bounded weighted sum
\* 0.40*occupancy + 0.30*departure + 0.10*time + 0.10*day + 0.10*seasonal of
\* the step-table factors, rounded to 2 decimals (within half a hundredth of
\* it); occupancy 0.90, 2 days out, Tuesday 08:00, no holiday or peak season
\* gives factors 2.00, 1.75, 1.20, 1.05, 1.00 and 1.65; occupancy 0.10, 120
\* days out, Thursday 03:00 gives 0.85, 0.85, 0.85, 1.10, 1.00 and 0.89.
C2_SurgeFormula ==
    /\ surge_out.kind = "value" =>
          LET f == surge_out.value.breakdown.factors
              w == 40 * f.occupancy + 30 * f.departure_timing + 10 * f.time_of_day
                     + 10 * f.day_of_week + 10 * f.seasonal
              bounded == IF w < min_multiplier THEN min_multiplier
                         ELSE IF w > max_multiplier THEN max_multiplier ELSE w
              m == surge_out.value.multiplier
          IN  /\ surge_out.value.breakdown.weighted_raw = w
              /\ 100 * m - bounded <= 50
              /\ bounded - 100 * m <= 50
    /\ C2_Example(9, 2, 8, 1) =>
          /\ C2_FactorsAre(200, 175, 120, 105, 100)
          /\ surge_out.value.multiplier = 165
    /\ C2_Example(1, 120, 3, 3) =>
          /\ C2_FactorsAre(85, 85, 85, 110, 100)
          /\ surge_out.value.multiplier = 89

C2_Witness ==
    /\ C2_Example(9, 2, 8, 1)
    /\ surge_out.value.multiplier = 165

C3_Written(f) == prices[f] # NoRow

\* In every prices row current_price is base_price times surge_multiplier.
C3_PriceIsProduct ==
    \A f \in FlightIds : C3_Written(f) =>
        prices[f].current_price = prices[f].base_price * prices[f].surge_multiplier

\* C3: every prices row that update_flight_price / batch_update_prices have
\* written has current_price = base_price * surge_multiplier and
\* min_multiplier <= surge_multiplier <= max_multiplier, in every interleaving.
C3_PriceRecordInvariant ==
    \A f \in FlightIds : C3_Written(f) =>
        /\ prices[f].current_price = prices[f].base_price * prices[f].surge_multiplier
        /\ min_multiplier <= prices[f].surge_multiplier * 100
        /\ prices[f].surge_multiplier * 100 <= max_multiplier

C5_NotFoundLeavesStores ==
    [][\A c \in Callers :
          ( /\ Steps(c)
            /\ call[c].pc = "select"
            /\ SelectFlightJoin(call[c].flight_id) = NoRow )
          => /\ StoresUnchanged
             /\ call'[c].pc # "update"
             /\ ~batch[c].active =>
                   /\ ret'[c].kind = "raise"
                   /\ ret'[c].error \in {"not found", "db error"}
                   /\ ret'[c].flight_id = call[c].flight_id
             /\ batch[c].active =>
                   LET ups == IF batch'[c].active THEN batch'[c].updates
                              ELSE ret'[c].value
                   IN  /\ Len(ups) = Len(batch[c].updates) + 1
                       /\ IsError(ups[Len(ups)])
                       /\ ups[Len(ups)].flight_id = call[c].flight_id
    ]_vars

C5_Witness ==
    \E c \in Callers :
        /\ ret[c].kind = "raise"
        /\ ret[c].error = "not found"
        /\ SelectFlightJoin(ret[c].flight_id) = NoRow
        /\ \A f \in FlightIds : price_history[f] = NoDoc /\ prices[f] = InitPriceRow(f)

\* The listener pops the head of conn.notifies and processes it.
HandlerStep ==
    /\ listener = "drain"
    /\ notifies # <<>>
    /\ notifies' = Tail(notifies)
    /\ Len(log') = Len(log) + 1

\* The step processes a change event of the table.
HandlerStepOn(table) ==
    /\ HandlerStep
    /\ Head(notifies).form = "object"
    /\ Head(notifies).table = table

LastOutcome(lines) == lines[Len(lines)].outcome

DocsForKey(coll, cust_id, booking_id) ==
    {i \in 1..Len(coll) : coll[i].customer_id = cust_id /\ coll[i].booking_id = booking_id}

LinesWith(outcome, table, record_id) ==
    {j \in 1..Len(log) : /\ log[j].outcome = outcome
                         /\ log[j].payload.form = "object"
                         /\ log[j].payload.table = table
                         /\ log[j].payload.record_id = record_id}

C7_PriceHandlerAppendsEach ==
    \A f \in FlightIds :
        Cardinality({i \in 1..Len(SnapshotsOf(f)) :
                        SnapshotsOf(f)[i].triggered_by = "database_trigger"})
            = Cardinality(LinesWith("price synced", "prices", PriceIdOf(f)))

C7_Witness ==
    \E f \in FlightIds :
        /\ Cardinality(LinesWith("price synced", "prices", PriceIdOf(f))) = 2
        /\ Len(SnapshotsOf(f)) = 2
        /\ SnapshotsOf(f)[1] = SnapshotsOf(f)[2]
        /\ SnapshotsOf(f)[1].triggered_by = "database_trigger"

\* C8: applying sync_booking_behavior again for a bookings row whose
\* activity the behavior document already holds leaves the document as the
\* first application left it.
C8_BookingHandlerIdempotent ==
    [][ ( /\ HandlerStepOn("bookings")
          /\ LastOutcome(log') = "booking synced"
          /\ \E j \in 1..Len(log) : /\ log[j].payload = Head(notifies)
                                    /\ log[j].outcome = "booking synced" )
        => customer_behavior' = customer_behavior
    ]_vars

IsPrefix(s, t) == Len(s) <= Len(t) /\ \A i \in 1..Len(s) : s[i] = t[i]

\* C9: price_snapshots is append-only: in every step of update_flight_price,
\* of the listener and of sync_all, each flight's history before the step
\* is a prefix of its history after it.
C9_HistoryAppendOnly ==
    [][ \A f \in FlightIds : IsPrefix(SnapshotsOf(f), SnapshotsOf(f)') ]_vars

TagsOf(f) == {SnapshotsOf(f)[i].triggered_by : i \in 1..Len(SnapshotsOf(f))}

C9_Witness ==
    \E f \in FlightIds :
        /\ TagsOf(f) = {"pricing_engine", "database_trigger", "bulk_sync"}
        /\ Len(SnapshotsOf(f)) >= 4

\* Notifications that have arrived and are not processed yet.
Pending == Len(channel) + Len(notifies)

Dropped == \E j \in 1..Len(log) : log[j].outcome = "invalid json"

\* C10: a payload that is not JSON is dropped: the step that processes it
\* changes no collection, prints the decode error and leaves the listener in
\* its loop with the notifications behind it still pending; and whatever is
\* pending once a payload has been dropped is processed in the end.
C10_MalformedDropped ==
    /\ [][ (HandlerStep /\ Head(notifies).form = "garbage") =>
              /\ UNCHANGED <<price_history, flight_reviews, customer_behavior>>
              /\ LastOutcome(log') = "invalid json"
              /\ listener' \in {"select", "drain"}
              /\ listener' = "drain" <=> notifies' # <<>>
       ]_vars
    /\ [](listener # "crashed")
    /\ (Dropped /\ Pending > 0) ~> (Pending = 0)

C10_Witness ==
    \E i, j \in 1..Len(log) :
        /\ i < j
        /\ log[i].outcome = "invalid json"
        /\ log[j].outcome \in {"price synced", "booking synced", "review synced"}
        /\ Pending = 0


\* The payloads in their order of arrival: those processed, those taken from
\* the connection and not processed yet, those still queued for it.
Arrival == [i \in 1..Len(log) |-> log[i].payload] \o notifies \o channel

\* C11: the listener processes the notifications in arrival order, one at a
\* time: nothing overtakes in the pipeline, the listener goes back to its
\* wait only with conn.notifies drained, what it has taken is processed in
\* the end, and the step that takes a price event has appended that event's
\* snapshot at the end of the flight's history before the next one is taken.
C11_InOrderDispatch ==
    /\ [][ IsPrefix(Arrival, Arrival') ]_vars
    /\ [](listener \in {"init", "select"} => notifies = <<>>)
    /\ [][ IF HandlerStepOn("prices") /\ LastOutcome(log') = "price synced"
            THEN LET price_data == SelectPriceJoin(Head(notifies).record_id)
                 IN  /\ price_data # NoRow
                     /\ \A f \in FlightIds : f = price_data.flight_id =>
                           SnapshotsOf(f)' =
                               Append(SnapshotsOf(f),
                                      RowSnapshot(price_data, "database_trigger"))
            ELSE TRUE
       ]_vars
    /\ (notifies # <<>>) ~> (notifies = <<>>)

C11_Witness ==
    /\ Len(log) = 3
    /\ log[1].outcome = "price synced"
    /\ log[2].outcome = "review synced"
    /\ log[3].outcome = "price synced"
    /\ Len(SnapshotsOf(1)) = 2
    /\ Len(flight_reviews) = 1
    /\ Pending = 0


\* C12: when the run loop has ended on a stop request, every notification
\* that the listener had received (moved into conn.notifies) has been
\* dispatched to its handler: none is left behind.
C12_GracefulShutdown == listener = "stopped" => notifies = <<>>


\* The step is c's UPDATE statement raising.
UpdateFailsStep(c) == Steps(c) /\ call[c].pc = "update" /\ call'[c].pc # "sync"

\* C13 as stated: once the row is read and the multiplier computed, a
\* snapshot is appended also when the UPDATE of the prices row fails.
C13_SnapshotDespiteFailure ==
    [][ \A c \in Callers : UpdateFailsStep(c) =>
           \E f \in FlightIds : Len(SnapshotsOf(f)') = Len(SnapshotsOf(f)) + 1 ]_vars

\* C13, amended: the snapshot follows the primary write.  A refresh whose
\* UPDATE raises ends in that error with no snapshot appended and the prices
\* row as it was; the history changes only in the step after an UPDATE that
\* went through, by the one snapshot of the multiplier and price written.
C13_SnapshotAfterPrimaryWrite ==
    [][ /\ \A c \in Callers : UpdateFailsStep(c) =>
              /\ UNCHANGED <<prices, price_history, channel>>
              /\ ~batch[c].active => ret'[c].kind = "raise" /\ ret'[c].error = "db error"
              /\ batch[c].active =>
                    LET ups == IF batch'[c].active THEN batch'[c].updates
                               ELSE ret'[c].value
                    IN  IsError(ups[Len(ups)])
        /\ price_history' # price_history =>
              \E c \in Callers :
                  /\ Steps(c)
                  /\ call[c].pc = "sync"
                  /\ \A f \in FlightIds :
                        SnapshotsOf(f)' =
                            IF f = call[c].flight_id
                            THEN Append(SnapshotsOf(f),
                                        EngineSnapshot(call[c].flight, call[c].new_surge,
                                                       call[c].new_price, call[c].breakdown))
                            ELSE SnapshotsOf(f)
    ]_vars

C13_Witness ==
    \E c, d \in Callers :
        /\ ret[c].kind = "raise"
        /\ ret[c].at = "update"
        /\ price_history[ret[c].flight_id] = NoDoc
        /\ prices[ret[c].flight_id] = InitPriceRow(ret[c].flight_id)
        /\ ret[d].kind = "value"
        /\ Len(SnapshotsOf(ret[d].value.flight_id)) = 1
        /\ SnapshotsOf(ret[d].value.flight_id)[1].surge_multiplier
               = prices[ret[d].value.flight_id].surge_multiplier


\* C14: a failure of the secondary-store write is recovered inside the
\* operation.  The last step of update_flight_price, whether its push went
\* through or not, returns the result computed and leaves the prices row as
\* the UPDATE wrote it; the last step of generate_insights, whether its
\* upsert went through or not, returns the insight computed.
C14_SecondaryFailureRecovered ==
    [][ \A c \in Callers :
          /\ (Steps(c) /\ call[c].pc = "sync" /\ ~batch[c].active) =>
                /\ ret'[c] = [kind |-> "value", op |-> "refresh", value |-> UpdateResult(c)]
                /\ prices' = prices
                /\ price_history' \in
                      { price_history,
                        PushSnapshot(call[c].flight_id,
                                     EngineSnapshot(call[c].flight, call[c].new_surge,
                                                    call[c].new_price, call[c].breakdown)) }
          /\ (Steps(c) /\ call[c].pc = "insight_store") =>
                /\ ret'[c] = [kind |-> "value", op |-> "insights",
                              value |-> call[c].insight]
                /\ UNCHANGED <<prices, price_history>>
                /\ ai_pricing_insights' \in
                      { ai_pricing_insights,
                        UpsertInsight(ai_pricing_insights, call[c].insight) }
    ]_vars

C14_Witness ==
    \E c, d \in Callers :
        /\ ret[c].kind = "value"
        /\ ret[c].op = "refresh"
        /\ ret[c].value.new_price # ret[c].value.old_price
        /\ prices[ret[c].value.flight_id].current_price = ret[c].value.new_price
        /\ price_history[ret[c].value.flight_id] = NoDoc
        /\ ret[d].kind = "value"
        /\ ret[d].op = "insights"
        /\ ai_pricing_insights = <<>>


\* The documents of a collection that are keyed by the flight.
DocsOfFlight(coll, f) == {i \in 1..Len(coll) : coll[i].flight_id = f}

\* C17: ai_pricing_insights never holds two documents for one flight, and
\* whenever the collection changes it is generate_insights storing: after
\* the step the flight has exactly one document, equal field by field to
\* the insight that run generated (nothing of the document it replaces is
\* left), and the documents of other flights are as before.
C17_InsightReplaced ==
    /\ [](\A f \in RequestIds : Cardinality(DocsOfFlight(ai_pricing_insights, f)) <= 1)
    /\ [][ ai_pricing_insights' # ai_pricing_insights =>
              \E c \in Callers :
                  /\ Steps(c)
                  /\ call[c].pc = "insight_store"
                  /\ LET insight == call[c].insight
                         docs == DocsOfFlight(ai_pricing_insights', insight.flight_id)
                     IN  /\ Cardinality(docs) = 1
                         /\ \A i \in docs : ai_pricing_insights'[i] = insight
                         /\ \A i \in 1..Len(ai_pricing_insights) :
                               i \notin docs =>
                                   ai_pricing_insights'[i] = ai_pricing_insights[i]
       ]_vars

C17_Witness ==
    \E c, d \in Callers :
        /\ ret[c].kind = "value" /\ ret[c].op = "insights"
        /\ ret[d].kind = "value" /\ ret[d].op = "insights"
        /\ ret[c].value.flight_id = ret[d].value.flight_id
        /\ ret[d].value.generated_at < ret[c].value.generated_at
        /\ ret[d].value.recommendations # ret[c].value.recommendations
        /\ ret[d].value.historical_analysis # UnknownHistory
        /\ ret[c].value.historical_analysis = UnknownHistory
        /\ ai_pricing_insights = <<ret[c].value>>

\* A consumer's check of an insight at a time given in minutes.
IsStaleAt(insight, minutes) == minutes > 60 * insight.expires_at

C18_SixHourWindow(insight) ==
    /\ insight.expires_at = insight.generated_at + 6
    /\ IsStaleAt(insight, 60 * insight.generated_at + 361)

\* C18: every insight that generate_insights returns or stores expires 6
\* hours after its generated_at, so that a check 6 hours and 1 minute after
\* generation finds it stale; and no step takes a stored insight away,
\* however long ago it expired.
C18_InsightExpiry ==
    /\ [](\A i \in 1..Len(ai_pricing_insights) : C18_SixHourWindow(ai_pricing_insights[i]))
    /\ [](\A c \in Callers : (ret[c].kind = "value" /\ ret[c].op = "insights") =>
              C18_SixHourWindow(ret[c].value))
    /\ [][ \A f \in RequestIds :
              DocsOfFlight(ai_pricing_insights, f) # {} =>
                  DocsOfFlight(ai_pricing_insights', f) # {} ]_vars

C18_Witness ==
    \E i \in 1..Len(ai_pricing_insights) :
        /\ now > ai_pricing_insights[i].expires_at
        /\ IsStaleAt(ai_pricing_insights[i], 60 * now)
        /\ ai_pricing_insights[i].generated_at = 0

BulkTagged(f) ==
    {i \in 1..Len(SnapshotsOf(f)) : SnapshotsOf(f)[i].triggered_by = "bulk_sync"}

\* The documents of flight_reviews for the customer and booking of a review.
DocsOfReview(review) ==
    {i \in 1..Len(flight_reviews) :
        /\ flight_reviews[i].customer_id = review.cust_id
        /\ flight_reviews[i].booking_id = review.booking_id}

CartsNotOf(doc, u) ==
    LET Other(cart) == cart.flight_id # u
    IN  SelectSeq(doc.abandoned_carts, Other)

SessionDocs(coll, c) ==
    {i \in 1..Len(coll) : coll[i].customer_id = c /\ coll[i].session_id = SessionId(c)}

\* C16: when the booking handler has run for a booking of customer c on
\* flight u, no document of c holds an abandoned cart for u; the carts of c
\* for other flights are as before, in their order; the documents of other
\* customers are as before; and the session document of (c, session id of
\* the day), created when it was not there, has the completed_booking
\* activity appended behind the activities it had.
C16_BookingClearsCarts ==
    [][ IF HandlerStepOn("bookings") /\ LastOutcome(log') = "booking synced"
        THEN \E booking \in {SelectBookingJoin(Head(notifies).record_id)} :
             \E c \in {booking.cust_id} :
             \E u \in {booking.flight_id} :
               /\ \A i \in 1..Len(customer_behavior') :
                     customer_behavior'[i].customer_id = c =>
                         \A k \in 1..Len(customer_behavior'[i].abandoned_carts) :
                             customer_behavior'[i].abandoned_carts[k].flight_id # u
               /\ \A i \in 1..Len(customer_behavior) :
                     IF customer_behavior[i].customer_id = c
                     THEN /\ customer_behavior'[i].customer_id = c
                          /\ customer_behavior'[i].session_id = customer_behavior[i].session_id
                          /\ customer_behavior'[i].abandoned_carts =
                                CartsNotOf(customer_behavior[i], u)
                          /\ i \notin SessionDocs(customer_behavior, c) =>
                                customer_behavior'[i].activities =
                                    customer_behavior[i].activities
                     ELSE customer_behavior'[i] = customer_behavior[i]
               /\ Len(customer_behavior') =
                     Len(customer_behavior) +
                         (IF SessionDocs(customer_behavior, c) = {} THEN 1 ELSE 0)
               /\ \E i \in 1..Len(customer_behavior') :
                     /\ customer_behavior'[i].customer_id = c
                     /\ customer_behavior'[i].session_id = SessionId(c)
                     /\ customer_behavior'[i].activities =
                           Append(IF i <= Len(customer_behavior)
                                  THEN customer_behavior[i].activities ELSE <<>>,
                                  BookingActivity(booking))
                     /\ \A j \in 1..Len(customer_behavior') :
                           (/\ customer_behavior'[j].customer_id = c
                            /\ customer_behavior'[j].session_id = SessionId(c)) => j = i
        ELSE TRUE
      ]_vars

C16_Witness ==
    /\ \E j \in 1..Len(log) : log[j].outcome = "booking synced"
    /\ Len(customer_behavior) = 3
    /\ \E i \in 1..Len(customer_behavior) :
          /\ customer_behavior[i].customer_id = 1
          /\ customer_behavior[i].session_id # SessionId(1)
          /\ customer_behavior[i].abandoned_carts = <<Cart(2)>>
          /\ customer_behavior[i].activities = <<>>
    /\ \E i \in 1..Len(customer_behavior) :
          /\ customer_behavior[i].customer_id = 2
          /\ customer_behavior[i].abandoned_carts = <<Cart(2), Cart(1)>>
    /\ \E i \in SessionDocs(customer_behavior, 1) :
          /\ customer_behavior[i].abandoned_carts = <<>>
          /\ Len(customer_behavior[i].activities) = 1
          /\ customer_behavior[i].activities[1].action = "completed_booking"


\* The tiers as the specification lists them: upper bound and value, in
\* hundredths.
C20_Tiers ==
    << <<30, 85>>, <<50, 100>>, <<70, 125>>, <<85, 150>>, <<95, 200>>, <<100, 250>> >>

\* The occupancy num/den lies above the previous bound and below this one.
C20_Inside(num, den, i) ==
    /\ num * 100 < C20_Tiers[i][1] * den
    /\ i > 1 => num * 100 > C20_Tiers[i - 1][1] * den

\* C20: a rate equal to a tier's upper bound takes that tier's value
\* (0.85, 1.00, 1.25, 1.50, 2.00, 2.50 at 0.30, 0.50, 0.70, 0.85, 0.95,
\* 1.00), as does a rate between the bound below and it; and against the
\* call of the state, the same call with a higher occupancy has an occupancy
\* factor, a weighted sum and a bounded sum that are no lower, and a
\* multiplier that is no lower (where the bounded sums are the same number,
\* it is that number rounded).
C20_OccupancyMonotone ==
    (surge_out.kind = "value" /\ surge_in.total_seats > 0) =>
        LET t    == surge_in.total_seats
            num  == t - surge_in.available_seats
            mine == surge_out.value
            Bounded(r) == ApplyBounds(r.breakdown.weighted_raw,
                                      min_multiplier, max_multiplier)
        IN  /\ \A i \in 1..Len(C20_Tiers) :
                  /\ num * 100 = C20_Tiers[i][1] * t =>
                        _get_occupancy_multiplier([num |-> num, den |-> t, err |-> 0])
                            = C20_Tiers[i][2]
                  /\ C20_Inside(num, t, i) =>
                        mine.breakdown.factors.occupancy = C20_Tiers[i][2]
            /\ mine.breakdown.factors.occupancy \in
                  {_get_occupancy_multiplier(rate) :
                      rate \in OccupancyRates(surge_in.available_seats, t)}
            /\ \A a2 \in 0..(surge_in.available_seats - 1) :
                  \A r2 \in calculate_surge_multiplier(a2, t, surge_in.dep_time, now,
                                                        min_multiplier, max_multiplier) :
                      /\ r2.breakdown.factors.occupancy >= mine.breakdown.factors.occupancy
                      /\ r2.breakdown.weighted_raw >= mine.breakdown.weighted_raw
                      /\ Bounded(r2) >= Bounded(mine)
                      /\ IF Bounded(r2) > Bounded(mine)
                         THEN r2.multiplier >= mine.multiplier
                         ELSE r2.multiplier \in Round2(Bounded(mine))

C20_Witness ==
    /\ surge_out.kind = "value"
    /\ 100 * (surge_in.total_seats - surge_in.available_seats) = 85 * surge_in.total_seats
    /\ surge_out.value.breakdown.factors.occupancy = 150
    /\ \E r2 \in calculate_surge_multiplier(surge_in.available_seats - 1,
                        surge_in.total_seats, surge_in.dep_time, now,
                        min_multiplier, max_multiplier) :
          r2.multiplier > surge_out.value.multiplier


\* The values the step tables and the seasonal product hold, in hundredths.
C21_FactorValues ==
    {85, 90, 95, 100, 105, 110, 115, 120, 125, 130, 135, 150, 162, 175, 200, 250}

\* C21: the weights of occupancy, departure, time of day, day of week and
\* season add up to 1.0: five sub-multipliers all equal to m give the
\* weighted value m, and a call whose five factors are the same m reports
\* m as weighted_raw and returns m brought into the bounds and rounded.
C21_WeightsSumToOne ==
    /\ \A m \in C21_FactorValues : WeightedSurge(m, m, m, m, m) = 100 * m
    /\ surge_out.kind = "value" =>
          LET f == surge_out.value.breakdown.factors
          IN  ( /\ f.departure_timing = f.occupancy
                /\ f.time_of_day = f.occupancy
                /\ f.day_of_week = f.occupancy
                /\ f.seasonal = f.occupancy ) =>
                  /\ surge_out.value.breakdown.weighted_raw = 100 * f.occupancy
                  /\ surge_out.value.multiplier \in
                        Round2(ApplyBounds(100 * f.occupancy, min_multiplier, max_multiplier))

C21_Witness ==
    /\ surge_out.kind = "value"
    /\ surge_out.value.breakdown.factors =
          [ occupancy |-> 100, departure_timing |-> 100, time_of_day |-> 100,
            day_of_week |-> 100, seasonal |-> 100 ]
    /\ surge_out.value.breakdown.weighted_raw = 10000
    /\ surge_out.value.multiplier = 100


\* The entries of a recommendation list with the action.
RecsWith(recs, action) == {i \in 1..Len(recs) : recs[i].action = action}

\* The list holds the action's entry, once and with the priority, exactly
\* when the rule's condition holds.
C22_Rule(recs, holds, action, priority) ==
    /\ Cardinality(RecsWith(recs, action)) = (IF holds THEN 1 ELSE 0)
    /\ \A i \in RecsWith(recs, action) : recs[i].priority = priority

C22_Count(holds) == IF holds THEN 1 ELSE 0

\* C22: in every insight that generate_insights returns, the promotional
\* discount (high) is there iff occupancy < 0.3 and days_to_departure < 7,
\* the surge increase (high) iff occupancy > 0.85, the last-minute pricing
\* (medium) iff days_to_departure <= 1 and seats are free; each rule on its
\* own, nothing else in the list, 0 to 3 entries.  Occupancy is the float
\* 1 - available/total: off the thresholds it is on the fraction's side.
C22_RecommendationRules ==
    \A c \in Callers :
        (ret[c].kind = "value" /\ ret[c].op = "insights") =>
            LET insight == ret[c].value
                flight  == flights[insight.flight_id]
                recs    == insight.recommendations
                days    == DaysToDeparture(flight.dep_time, insight.generated_at)
                occ     == flight.total_seats - flight.available_seats
                seats   == flight.total_seats
                last    == days <= 1 /\ flight.available_seats > 0
            IN  /\ \E rate \in OccupancyRates(flight.available_seats, seats) :
                      /\ C22_Rule(recs, RateLt(rate, 30) /\ days < 7,
                                  "Apply promotional discount", "high")
                      /\ C22_Rule(recs, RateGt(rate, 85),
                                  "Increase surge multiplier", "high")
                      /\ Len(recs) = C22_Count(RateLt(rate, 30) /\ days < 7)
                                       + C22_Count(RateGt(rate, 85)) + C22_Count(last)
                /\ C22_Rule(recs, last, "Last-minute deal or premium pricing", "medium")
                /\ 100 * occ < 30 * seats =>
                      C22_Rule(recs, days < 7, "Apply promotional discount", "high")
                /\ 100 * occ > 30 * seats =>
                      RecsWith(recs, "Apply promotional discount") = {}
                /\ 100 * occ > 85 * seats =>
                      C22_Rule(recs, TRUE, "Increase surge multiplier", "high")
                /\ 100 * occ < 85 * seats =>
                      RecsWith(recs, "Increase surge multiplier") = {}
                /\ Len(recs) \in 0..3

C22_Witness ==
    \E c \in Callers :
        /\ ret[c].kind = "value" /\ ret[c].op = "insights"
        /\ Len(ret[c].value.recommendations) = 2
        /\ ret[c].value.recommendations[1].action = "Apply promotional discount"
        /\ ret[c].value.recommendations[2].action = "Last-minute deal or premium pricing"

\* C30: an insight that generate_insights returns holds at most two
\* recommendations: the promotional discount and the surge increase are
\* never both in it.
C30_AtMostTwoRecommendations ==
    \A c \in Callers :
        (ret[c].kind = "value" /\ ret[c].op = "insights") =>
            /\ Len(ret[c].value.recommendations) <= 2
            /\ \/ RecsWith(ret[c].value.recommendations, "Apply promotional discount") = {}
               \/ RecsWith(ret[c].value.recommendations, "Increase surge multiplier") = {}

C30_Witness ==
    \E c \in Callers :
        /\ ret[c].kind = "value" /\ ret[c].op = "insights"
        /\ Len(ret[c].value.recommendations) = 2
        /\ ret[c].value.recommendations[1].action = "Increase surge multiplier"
        /\ ret[c].value.recommendations[2].action = "Last-minute deal or premium pricing"


\* C23: the historical_demand that a price refresh holds for its flight,
\* whenever it is not None, is an average between 0 and 1.
C23_HistoricalDemandInUnitRange ==
    \A c \in Callers :
        (call[c].pc \in {"update", "sync"} /\ call[c].historical_demand # NoDemand) =>
            /\ 0 <= call[c].historical_demand.sum
            /\ call[c].historical_demand.sum <= 100 * call[c].historical_demand.n


\* C26: the step of a price refresh that computes the surge ends, for a
\* flight that has a row, with a multiplier, a breakdown and a price that
\* calculate_surge_multiplier yields from the row, the clock and the bounds
\* alone, whatever _get_historical_demand returned (None after a failure,
\* None for no snapshot, or an average); the refresh goes on to its UPDATE.
C26_DemandLookupIgnored ==
    [][ \A c \in Callers :
          IF /\ call[c].pc = "select"
             /\ call'[c].pc = "update"
          THEN /\ SelectFlightJoin(call[c].flight_id) # NoRow
               /\ call'[c].historical_demand \in
                     {_get_historical_demand(call[c].flight_id, mongo_ok) :
                         mongo_ok \in BOOLEAN}
               /\ \E r \in calculate_surge_multiplier(
                             flights[call[c].flight_id].available_seats,
                             flights[call[c].flight_id].total_seats,
                             flights[call[c].flight_id].dep_time, now,
                             min_multiplier, max_multiplier) :
                     /\ call'[c].new_surge = r.multiplier
                     /\ call'[c].breakdown = r.breakdown
                     /\ call'[c].new_price =
                           prices[call[c].flight_id].base_price * r.multiplier
          ELSE TRUE
      ]_vars

C26_Witness ==
    \E c, d \in Callers :
        /\ call[c].pc = "update"
        /\ call[d].pc = "update"
        /\ call[c].flight_id = call[d].flight_id
        /\ call[c].historical_demand = NoDemand
        /\ call[d].historical_demand # NoDemand
        /\ call[c].new_surge = call[d].new_surge
        /\ call[c].breakdown = call[d].breakdown


\* The change events of a flight's prices row that have arrived and are not
\* processed yet.
PendingPrice(f) ==
    Cardinality({i \in 1..Len(notifies \o channel) :
                    (notifies \o channel)[i] = PriceEvent(f)})

\* The snapshots of a flight's history with the tag.
Tagged(f, tag) == {i \in 1..Len(SnapshotsOf(f)) : SnapshotsOf(f)[i].triggered_by = tag}

\* C24: with the listener running and the stores answering, the UPDATE of
\* every price refresh queues the change event of the flight's prices row;
\* every such event is processed in the end; and the step that processes it
\* appends to the flight's history the snapshot of the prices row as it is
\* at that step.
C24_EndToEndPropagation ==
    /\ [][ \A c \in Callers :
              (call[c].pc = "update" /\ call'[c].pc = "sync" /\ listening) =>
                  /\ prices'[call[c].flight_id].current_price = call[c].new_price
                  /\ channel' = Append(channel, PriceEvent(call[c].flight_id))
       ]_vars
    /\ \A f \in FlightIds : (PendingPrice(f) > 0) ~> (PendingPrice(f) = 0)
    /\ [][ IF HandlerStepOn("prices")
            THEN \E f \in FlightIds :
                   /\ Head(notifies) = PriceEvent(f)
                   /\ LastOutcome(log') = "price synced"
                   /\ PendingPrice(f)' = PendingPrice(f) - 1
                   /\ SnapshotsOf(f)' =
                         Append(SnapshotsOf(f),
                                RowSnapshot(SelectPriceJoin(PriceIdOf(f)), "database_trigger"))
                   /\ SnapshotsOf(f)'[Len(SnapshotsOf(f)')].current_price =
                         prices[f].current_price
            ELSE TRUE
       ]_vars

\* Two refreshes at different prices were both written before the listener
\* processed the first event: both of its snapshots show the later price.
C24_Witness ==
    \E f \in FlightIds :
        /\ PendingPrice(f) = 0
        /\ Cardinality(Tagged(f, "database_trigger")) = 2
        /\ Cardinality(Tagged(f, "pricing_engine")) = 2
        /\ \A i \in Tagged(f, "database_trigger") :
              SnapshotsOf(f)[i].current_price = prices[f].current_price
        /\ \E i \in Tagged(f, "pricing_engine") :
              SnapshotsOf(f)[i].current_price # prices[f].current_price

\* The refreshes of a flight that have made their UPDATE and not yet their
\* own push.
AtSync(f) == Cardinality({c \in Callers : call[c].pc = "sync" /\ call[c].flight_id = f})

\* C29: with the listener running and both stores answering, every refresh
\* of a flight adds two snapshots to the flight's history, one tagged
\* 'pricing_engine' by its own push and one tagged 'database_trigger' by the
\* handler of the event its UPDATE queued: pushes made or due are as many
\* as events processed or pending, and once every call has returned and
\* every event is processed the histories hold two snapshots per refresh,
\* one of each tag.
C29_TwoSnapshotsPerRefresh ==
    /\ \A f \in FlightIds :
          /\ Cardinality(Tagged(f, "pricing_engine")) + AtSync(f)
                = Cardinality(Tagged(f, "database_trigger")) + PendingPrice(f)
          /\ Len(SnapshotsOf(f)) = Cardinality(Tagged(f, "pricing_engine"))
                                     + Cardinality(Tagged(f, "database_trigger"))
    /\ ((\A c \in Callers : call[c].pc = "idle") /\ Pending = 0) =>
          /\ SeqSum([f \in FlightIds |-> Len(SnapshotsOf(f))]) = 2 * ops
          /\ \A f \in FlightIds :
                Cardinality(Tagged(f, "pricing_engine")) =
                    Cardinality(Tagged(f, "database_trigger"))

C29_Witness ==
    /\ \A c \in Callers : call[c].pc = "idle"
    /\ Pending = 0
    /\ ops = 1
    /\ \E f \in FlightIds :
          /\ Len(SnapshotsOf(f)) = 2
          /\ SnapshotsOf(f)[1].triggered_by = "pricing_engine"
          /\ SnapshotsOf(f)[2].triggered_by = "database_trigger"
          /\ SnapshotsOf(f)[1].current_price = SnapshotsOf(f)[2].current_price


\* Caller c's UPDATE statement executes.
UpdateStep(c) == call[c].pc = "update" /\ call'[c].pc = "sync"

\* C25: however refreshes of one flight interleave, every UPDATE leaves in
\* the prices row the surge_multiplier and the current_price of the call
\* that made it, both together, and nothing else changes a prices row: the
\* row holds the pair of the call whose UPDATE came last, never the
\* multiplier of one call with the price of another.
C25_LastWriteWins ==
    /\ [][ \A c \in Callers :
              UpdateStep(c) =>
                  /\ prices'[call[c].flight_id].surge_multiplier = call[c].new_surge
                  /\ prices'[call[c].flight_id].current_price = call[c].new_price
                  /\ call[c].new_price =
                        prices'[call[c].flight_id].base_price * call[c].new_surge
                  /\ \A f \in FlightIds :
                        f # call[c].flight_id => prices'[f] = prices[f]
       ]_vars
    /\ [][ prices' # prices => \E c \in Callers : UpdateStep(c) ]_vars

\* Two refreshes of one flight that both read the row before either wrote
\* it and computed different prices; the row holds the pair of one of them.
C25_Witness ==
    \E c, d \in Callers :
        /\ ret[c].kind = "value" /\ ret[c].op = "refresh"
        /\ ret[d].kind = "value" /\ ret[d].op = "refresh"
        /\ ret[c].value.flight_id = ret[d].value.flight_id
        /\ ret[c].value.old_price = ret[d].value.old_price
        /\ ret[c].value.new_price < ret[d].value.new_price
        /\ prices[ret[c].value.flight_id].current_price = ret[c].value.new_price
        /\ prices[ret[c].value.flight_id].surge_multiplier = ret[c].value.new_surge


\* The service prints "Error processing notification".
ErrorStep == Len(log') = Len(log) + 1 /\ LastOutcome(log') = "error"

HadError == \E j \in 1..Len(log) : log[j].outcome = "error"

\* C27: an exception raised in a handler (a query of the primary store or
\* a write of the secondary store failing) is caught in
\* process_notification: the step prints the error, the notification is
\* gone from conn.notifies and is queued nowhere again, price_history and
\* flight_reviews are as before (of a bookings event the pushed activity
\* stays when it is update_many that failed), the listener is in its loop
\* with the notifications behind still pending, and these are processed in
\* the end; every notification that arrived is processed once.
C27_HandlerErrorContained ==
    /\ [][ IF ErrorStep
            THEN /\ log'[Len(log')].payload = Head(notifies)
                 /\ notifies' = Tail(notifies)
                 /\ channel' = channel
                 /\ UNCHANGED <<price_history, flight_reviews>>
                 /\ \/ customer_behavior' = customer_behavior
                    \/ /\ Head(notifies).form = "object"
                       /\ Head(notifies).table = "bookings"
                       /\ \E booking \in {SelectBookingJoin(Head(notifies).record_id)} :
                             /\ booking # NoRow
                             /\ customer_behavior' =
                                   PushActivity(customer_behavior, booking.cust_id,
                                                BookingActivity(booking))
                 /\ listener' \in {"select", "drain"}
                 /\ listener' = "drain" <=> notifies' # <<>>
            ELSE TRUE
       ]_vars
    /\ [][ Arrival' # Arrival => (Len(log') = Len(log) /\ IsPrefix(Arrival, Arrival')) ]_vars
    /\ [][ Len(log') # Len(log) =>
              (Len(log') = Len(log) + 1 /\ notifies' = Tail(notifies)) ]_vars
    /\ [](listener \notin {"crashed", "stopped"})
    /\ (HadError /\ Pending > 0) ~> (Pending = 0)

\* The first price event of flight 1 met a failure and the one after it
\* was synced: the history holds the one snapshot.
C27_Witness ==
    /\ Len(log) = 2
    /\ log[1].payload = PriceEvent(1)
    /\ log[1].outcome = "error"
    /\ log[2].payload = PriceEvent(1)
    /\ log[2].outcome = "price synced"
    /\ Len(SnapshotsOf(1)) = 1
    /\ Pending = 0


\* ---------------------------------------------------------------- C28
SyncedTables == {"prices", "bookings", "reviews"}

\* The source row an event names, as the handler of its table selects it.
SourceRow(payload) ==
    CASE payload.table = "prices"   -> SelectPriceJoin(payload.record_id)
      [] payload.table = "bookings" -> SelectBookingJoin(payload.record_id)
      [] payload.table = "reviews"  -> SelectReviewJoin(payload.record_id)
      [] OTHER -> NoRow

\* C28: what the listener does with a change event depends on the event's
\* table and record_id only: the step it takes is a step it could take
\* on the same event with any other operation.  A DELETE event whose
\* source row is gone leaves price_history, flight_reviews and
\* customer_behavior as they are; a DELETE event whose row is still there
\* is synced like any other; and an event of a table other than prices,
\* bookings and reviews invokes no handler: the stores stay as they are
\* and no handler error is printed.
C28_DispatchIgnoresOperation ==
    [][ IF HandlerStep /\ Head(notifies).form = "object"
        THEN /\ \A operation \in Operations :
                   \E fault \in Faults :
                       process_notification(
                           [Head(notifies) EXCEPT !.operation = operation], fault)
             /\ (/\ Head(notifies).operation = "DELETE"
                 /\ Head(notifies).table \in SyncedTables
                 /\ SourceRow(Head(notifies)) = NoRow)
                   => UNCHANGED <<price_history, flight_reviews, customer_behavior>>
             /\ (/\ Head(notifies).operation = "DELETE"
                 /\ Head(notifies).table \in SyncedTables
                 /\ SourceRow(Head(notifies)) # NoRow
                 /\ LastOutcome(log') # "error")
                   => LastOutcome(log') \in {"price synced", "booking synced",
                                              "review synced"}
             /\ Head(notifies).table \notin SyncedTables
                   => /\ UNCHANGED <<price_history, flight_reviews, customer_behavior>>
                      /\ LastOutcome(log') = "received"
        ELSE TRUE
      ]_vars

\* Flight 1's price was synced and then deleted, and an event of the
\* flights table came: the DELETE event and the flights event have been
\* processed, and the history of flight 1 still holds its snapshot.
C28_Witness ==
    /\ prices[1] = NoRow
    /\ \E j \in LinesWith("received", "prices", PriceIdOf(1)) :
           log[j].payload.operation = "DELETE"
    /\ LinesWith("received", "flights", 1) # {}
    /\ Len(SnapshotsOf(1)) = 1
    /\ Pending = 0

====
